---- MODULE Spec2Model ----
(***************************************************************************)
(* AgentPay Python SDK: the client operations as a state machine.          *)
(*                                                                         *)
(* One client instance (base_url, api_key, fixed at construction) serves   *)
(* one call at a time.  A call is one action: it builds the request, meets *)
(* the transport's behaviour for that request (the reply, or the exception *)
(* raised by requests.<verb> / raise_for_status) and ends in an outcome:   *)
(* a returned record or a raised exception.  Finish hands the outcome to   *)
(* the caller and leaves the client idle for the next call.  requests is    *)
(* the sequence of HTTP requests the call in progress has issued; previous *)
(* is the caller's own note of the call it is about to make once more.     *)
(*                                                                         *)
(* JSON values are tagged records, so that null, numbers, strings,         *)
(* objects and lists can be told apart and Python's truthiness and         *)
(* dict.get / dict[...] can be modelled as they behave.                    *)
(***************************************************************************)
EXTENDS Integers, Sequences, FiniteSets, TLC

VARIABLES constructor, base_url, api_key, _wallet, _services, _payments, _disputes, _webhooks,
          phase, op, args, http, requests, outcome, previous, contexts, server

\* The client object: the arguments it was constructed with, its own
\* attributes and the five operation groups it holds.
client == <<constructor, base_url, api_key, _wallet, _services, _payments, _disputes, _webhooks>>

vars == <<client, phase, op, args, http, requests, outcome, previous, contexts, server>>

(***************************************************************************)
(* Bounds of the model.                                                    *)
(***************************************************************************)
NumIds == 2
MaxAmount == 2

(***************************************************************************)
(* JSON values (response.json() maps JSON null to Python None).            *)
(***************************************************************************)
JNull == [t |-> "null"]
JInt(n) == [t |-> "int", n |-> n]
JStr(s) == [t |-> "str", s |-> s]
JCode(cs) == [t |-> "str", cs |-> cs]
JBool(b) == [t |-> "bool", b |-> b]
JObj(o) == [t |-> "obj", o |-> o]
JList(l) == [t |-> "list", l |-> l]

EmptyDict == [k \in {} |-> JNull]

\* Python truthiness of a JSON value: None, 0, "", {} and [] are falsy.
Truthy(v) ==
    CASE v.t = "null" -> FALSE
      [] v.t = "int" -> v.n # 0
      [] v.t = "bool" -> v.b
      [] v.t = "str" -> IF "cs" \in DOMAIN v THEN v.cs # <<>> ELSE v.s # ""
      [] v.t = "obj" -> DOMAIN v.o # {}
      [] v.t = "list" -> v.l # <<>>
      [] OTHER -> TRUE

\* dict.get(key): the value, or None when the key is absent.
Get(d, key) == IF key \in DOMAIN d THEN d[key] ELSE JNull

\* dict.get(key, default)
GetOr(d, key, default) == IF key \in DOMAIN d THEN d[key] ELSE default

\* Python's `a or b`
Or(a, b) == IF Truthy(a) THEN a ELSE b

\* The dict without one key (used to build replies that lack a key).
Drop(d, key) == [k \in DOMAIN d \ {key} |-> d[k]]

\* The dict with one key set.
With(d, key, v) == [k \in DOMAIN d \cup {key} |-> IF k = key THEN v ELSE d[k]]

(***************************************************************************)
(* Outcomes of a call and the exception hierarchy.                         *)
(***************************************************************************)
Return(v) == [kind |-> "return", exc |-> "", msg |-> <<>>, value |-> v]
Raise(e, m) == [kind |-> "raise", exc |-> e, msg |-> m, value |-> JNull]

NoOutcome == [kind |-> "none", exc |-> "", msg |-> <<>>, value |-> JNull]

\* Direct base class of every exception type the model meets.
BaseOf ==
    [ AgentPayError |-> "Exception",
      APIError |-> "AgentPayError",
      ValidationError |-> "AgentPayError",
      WalletError |-> "AgentPayError",
      ServiceError |-> "AgentPayError",
      PaymentError |-> "AgentPayError",
      DisputeError |-> "AgentPayError",
      WebhookError |-> "AgentPayError",
      ExecutionError |-> "AgentPayError",
      RequestException |-> "Exception",
      ConnectionError |-> "RequestException",
      Timeout |-> "RequestException",
      HTTPError |-> "RequestException",
      KeyError |-> "Exception",
      TypeError |-> "Exception",
      Exception |-> "" ]

RECURSIVE IsInstance(_, _)
IsInstance(e, cls) ==
    IF e = cls THEN TRUE
    ELSE IF e \notin DOMAIN BaseOf \/ BaseOf[e] = "" THEN FALSE
    ELSE IsInstance(BaseOf[e], cls)

\* Mutant: the wrapping error's message leaves out the cause.
ExceptRequestExceptionAs_DropsCause(body, wrapper, prefix) ==
    IF body.kind = "raise" /\ IsInstance(body.exc, "RequestException")
    THEN Raise(wrapper, <<prefix>>)
    ELSE body

\* try: <body> except requests.RequestException as e: raise Wrapper(f"{prefix}{e}")
\* Only a RequestException raised in the body is caught; everything else,
\* the domain errors raised in the body included, propagates unchanged.
ExceptRequestExceptionAs(body, wrapper, prefix) ==
    IF body.kind = "raise" /\ IsInstance(body.exc, "RequestException")
    THEN Raise(wrapper, <<prefix>> \o body.msg)
    ELSE body

(***************************************************************************)
(* The transport: what requests.<verb>(...) and raise_for_status() do for  *)
(* one request.  raised is the exception raised by requests.<verb> itself  *)
(* ("none" when a response came back), status the response's status code,  *)
(* cause the message of the failure, data the parsed JSON body.            *)
(***************************************************************************)
Response(data) == [raised |-> "none", status |-> 200, cause |-> "", data |-> data]

TransportFailures ==
    { [raised |-> "ConnectionError", status |-> 0, cause |-> "Connection refused", data |-> EmptyDict],
      [raised |-> "Timeout", status |-> 0, cause |-> "Read timed out", data |-> EmptyDict],
      [raised |-> "none", status |-> 404, cause |-> "404 Client Error", data |-> EmptyDict],
      [raised |-> "none", status |-> 500, cause |-> "500 Server Error", data |-> EmptyDict] }

\* A patched requests.<verb> whose side effect is a plain Exception.
InjectedFailures ==
    { [raised |-> "Exception", status |-> 0, cause |-> "Network error", data |-> EmptyDict] }

Transport(replies) == {Response(d) : d \in replies} \cup TransportFailures \cup InjectedFailures

\* response = requests.<verb>(...); response.raise_for_status(); data = response.json()
\* The exception of the request, or a Return of the parsed body.
send(h) ==
    IF h.raised # "none" THEN Raise(h.raised, <<h.cause>>)
    ELSE IF h.status >= 400 /\ h.status < 600 THEN Raise("HTTPError", <<h.cause>>)
    ELSE Return(JObj(h.data))

Failed(h) == send(h).kind = "raise"

\* First key of the sequence that the dict lacks ("" when it has them all):
\* the key whose data[...] lookup raises KeyError, in evaluation order.
RECURSIVE FirstMissing(_, _)
FirstMissing(d, keys) ==
    IF keys = <<>> THEN ""
    ELSE IF Head(keys) \notin DOMAIN d THEN Head(keys)
    ELSE FirstMissing(d, Tail(keys))

(***************************************************************************)
(* Identifiers and amounts used as inputs and in replies.                  *)
(***************************************************************************)
Ids == {"id" \o ToString(i) : i \in 1..NumIds}
Amounts == {JInt(n) : n \in 0..MaxAmount}

\* A base URL handed to the constructor, as its parts: the URL proper and
\* the slashes that trail it.  The first is the default.
BaseUrls == {<<"http://localhost:3100">>, <<"https://api.agentspay.io", "/", "/">>}

\* Mutant: only one trailing slash is removed.
rstrip_Once(parts) ==
    IF parts # <<>> /\ parts[Len(parts)] = "/"
    THEN SubSeq(parts, 1, Len(parts) - 1)
    ELSE parts

\* str.rstrip("/")
RECURSIVE rstrip(_)
rstrip(parts) ==
    IF parts # <<>> /\ parts[Len(parts)] = "/"
    THEN rstrip(SubSeq(parts, 1, Len(parts) - 1))
    ELSE parts

\* The string the parts spell.
RECURSIVE Text(_)
Text(parts) == IF parts = <<>> THEN "" ELSE Head(parts) \o Text(Tail(parts))
ApiKeys == {JNull, JStr(""), JStr("test-key")}

Request(method, url, headers, json, params) ==
    [method |-> method, url |-> url, headers |-> headers, json |-> json, params |-> params]

\* The caller is about to make no particular call.
NoCall == [op |-> "none", args |-> EmptyDict]

\* The caller calls the operation name with the arguments a: any call, or
\* the one it set out to repeat.
Call(name, a) ==
    /\ previous \in {NoCall, [op |-> name, args |-> a]}
    /\ op' = name
    /\ args' = a

(***************************************************************************)
(* Strings whose letter case matters (currency codes, HTTP method names)   *)
(* are sequences of characters; str.upper() maps each character.           *)
(***************************************************************************)
UpperOf ==
    [ b |-> "B", s |-> "S", v |-> "V", m |-> "M", n |-> "N", e |-> "E",
      u |-> "U", d |-> "D", x |-> "X", g |-> "G", t |-> "T", p |-> "P", o |-> "O" ]

upper(cs) == [i \in 1..Len(cs) |-> IF cs[i] \in DOMAIN UpperOf THEN UpperOf[cs[i]] ELSE cs[i]]

BSV == <<"B", "S", "V">>
MNEE == <<"M", "N", "E", "E">>

\* Every spelling of an upper-case word in mixed letter case.
CaseVariants(w) ==
    LET lower == [c \in {UpperOf[k] : k \in DOMAIN UpperOf} |->
                     CHOOSE k \in DOMAIN UpperOf : UpperOf[k] = c]
    IN {s \in [1..Len(w) -> {w[i] : i \in 1..Len(w)} \cup {lower[w[i]] : i \in 1..Len(w)}] :
           \A i \in 1..Len(w) : s[i] \in {w[i], lower[w[i]]}}

InvalidCurrencies ==
    { <<>>, <<"U", "S", "D">>, <<"u", "s", "d">>, <<"B", "S">>, <<"b", "s", "v", "x">>,
      <<"M", "N", "E">>, <<"B", "S", "V", " ">>, <<"m", "n", "e", "e", "s">> }

Currencies == CaseVariants(BSV) \cup CaseVariants(MNEE) \cup InvalidCurrencies

(***************************************************************************)
(* Wallet operations (wallet.py).                                          *)
(***************************************************************************)
Wallet_get_headers(key) ==
    IF Truthy(key)
    THEN ("Content-Type" :> "application/json") @@ ("Authorization" :> ("Bearer " \o key.s))
    ELSE ("Content-Type" :> "application/json")

\* AgentWallet(id=wallet_data["id"], ..., balance=wallet_data.get("balance"), ...)
\* The keys of a wallet object read with wallet_data[...], in evaluation order.
WalletKeys ==
    <<"id", "publicKey", "address", "createdAt">>

\* Mutant: a balance the reply omits is recorded as zero.
AgentWallet_ZeroWhenOmitted(wallet_data) ==
    LET missing == FirstMissing(wallet_data, WalletKeys)
    IN IF missing # "" THEN Raise("KeyError", <<missing>>)
       ELSE Return([ t |-> "AgentWallet",
                     id |-> wallet_data["id"],
                     public_key |-> wallet_data["publicKey"],
                     address |-> wallet_data["address"],
                     created_at |-> wallet_data["createdAt"],
                     balance |-> GetOr(wallet_data, "balance", JInt(0)),
                     balance_mnee |-> GetOr(wallet_data, "balanceMnee", JInt(0)) ])

AgentWallet(wallet_data) ==
    LET missing == FirstMissing(wallet_data, WalletKeys)
    IN IF missing # "" THEN Raise("KeyError", <<missing>>)
       ELSE Return([ t |-> "AgentWallet",
                     id |-> wallet_data["id"],
                     public_key |-> wallet_data["publicKey"],
                     address |-> wallet_data["address"],
                     created_at |-> wallet_data["createdAt"],
                     balance |-> Get(wallet_data, "balance"),
                     balance_mnee |-> Get(wallet_data, "balanceMnee") ])

create_wallet(h) ==
    LET response == send(h)
        body == IF response.kind = "raise" THEN response
                ELSE LET wallet_data == Get(response.value.o, "wallet")
                     IN IF ~Truthy(wallet_data)
                        THEN Raise("WalletError", <<"Invalid response: missing wallet data">>)
                        ELSE AgentWallet(wallet_data.o)
    IN ExceptRequestExceptionAs(body, "WalletError", "Failed to create wallet: ")

get_wallet(wallet_id, h) ==
    LET response == send(h)
        body == IF response.kind = "raise" THEN response
                ELSE LET wallet_data == Get(response.value.o, "wallet")
                     IN IF ~Truthy(wallet_data)
                        THEN Raise("WalletError", <<"Wallet ", wallet_id, " not found">>)
                        ELSE AgentWallet(wallet_data.o)
    IN ExceptRequestExceptionAs(body, "WalletError", "Failed to get wallet: ")

\* Mutant: the currency code is compared without upper().
get_balance_CaseSensitive(wallet_id, currency, h) ==
    LET wallet == get_wallet(wallet_id, h)
    IN IF wallet.kind = "raise" THEN wallet
       ELSE IF currency = BSV THEN Return(Or(wallet.value.balance, JInt(0)))
       ELSE IF currency = MNEE THEN Return(Or(wallet.value.balance_mnee, JInt(0)))
       ELSE Raise("WalletError", <<"Invalid currency: ", currency>>)

\* Mutant: the currency code is validated before the wallet is fetched.
get_balance_ValidatesFirst(wallet_id, currency, h) ==
    IF upper(currency) # BSV /\ upper(currency) # MNEE
    THEN Raise("WalletError", <<"Invalid currency: ", currency>>)
    ELSE LET wallet == get_wallet(wallet_id, h)
         IN IF wallet.kind = "raise" THEN wallet
            ELSE IF upper(currency) = BSV THEN Return(Or(wallet.value.balance, JInt(0)))
            ELSE Return(Or(wallet.value.balance_mnee, JInt(0)))

get_balance(wallet_id, currency, h) ==
    LET wallet == get_wallet(wallet_id, h)
    IN IF wallet.kind = "raise" THEN wallet
       ELSE IF upper(currency) = BSV THEN Return(Or(wallet.value.balance, JInt(0)))
       ELSE IF upper(currency) = MNEE THEN Return(Or(wallet.value.balance_mnee, JInt(0)))
       ELSE Raise("WalletError", <<"Invalid currency: ", currency>>)

\* Wallet objects a reply may embed: complete ones with every form of the
\* two balances, ones that lack a key, the empty object, and one that
\* carries the credential issued with the wallet.
WalletFull(id, b, m) ==
    [ id |-> JStr(id), publicKey |-> JStr("pub_key_abc"), address |-> JStr("1A1zP1"),
      createdAt |-> JStr("2026-02-14T12:00:00Z"), balance |-> b, balanceMnee |-> m ]

WalletObjs ==
    LET base == WalletFull("id1", JInt(1), JInt(MaxAmount))
    IN {WalletFull(id, b, m) : id \in Ids, b \in Amounts \cup {JNull}, m \in Amounts \cup {JNull}}
       \cup {Drop(base, k) : k \in DOMAIN base}
       \cup {Drop(Drop(base, "balance"), "balanceMnee"), EmptyDict}
       \cup {With(base, "apiKey", JStr("issued-key"))}

WalletReplies ==
    {EmptyDict, [wallet |-> JNull]} \cup {[wallet |-> JObj(o)] : o \in WalletObjs}

CreateWallet ==
    /\ phase = "idle"
    /\ Call("create_wallet", EmptyDict)
    /\ \E h \in Transport(WalletReplies) :
        /\ requests' = <<Request("POST", _wallet.base_url \o "/api/wallets",
                                 Wallet_get_headers(_wallet.api_key), JNull, EmptyDict)>>
        /\ http' = h
        /\ outcome' = create_wallet(h)
    /\ phase' = "done"
    /\ UNCHANGED <<client, previous, contexts, server>>

\* Mutant: a repeated get_wallet is answered without a request.
GetWallet_Cached ==
    /\ phase = "idle"
    /\ \E wallet_id \in Ids :
        /\ Call("get_wallet", [wallet_id |-> wallet_id])
        /\ \E h \in Transport(WalletReplies) :
            /\ requests' = IF previous = NoCall
                           THEN <<Request("GET", _wallet.base_url \o "/api/wallets/" \o wallet_id,
                                          Wallet_get_headers(_wallet.api_key), JNull, EmptyDict)>>
                           ELSE <<>>
            /\ http' = h
            /\ outcome' = get_wallet(wallet_id, h)
    /\ phase' = "done"
    /\ UNCHANGED <<client, previous, contexts, server>>

GetWallet ==
    /\ phase = "idle"
    /\ \E wallet_id \in Ids :
        /\ Call("get_wallet", [wallet_id |-> wallet_id])
        /\ \E h \in Transport(WalletReplies) :
            /\ requests' = <<Request("GET", _wallet.base_url \o "/api/wallets/" \o wallet_id,
                                     Wallet_get_headers(_wallet.api_key), JNull, EmptyDict)>>
            /\ http' = h
            /\ outcome' = get_wallet(wallet_id, h)
    /\ phase' = "done"
    /\ UNCHANGED <<client, previous, contexts, server>>

GetBalance ==
    /\ phase = "idle"
    /\ \E wallet_id \in Ids, currency \in Currencies :
        /\ Call("get_balance", [wallet_id |-> wallet_id, currency |-> currency])
        /\ \E h \in Transport(WalletReplies) :
            /\ requests' = <<Request("GET", _wallet.base_url \o "/api/wallets/" \o wallet_id,
                                     Wallet_get_headers(_wallet.api_key), JNull, EmptyDict)>>
            /\ http' = h
            /\ outcome' = get_balance(wallet_id, currency, h)
    /\ phase' = "done"
    /\ UNCHANGED <<client, previous, contexts, server>>

(***************************************************************************)
(* Lists of parsed records: [parse(x) for x in xs] raises what the first   *)
(* failing element raises, and otherwise is the list of the records.       *)
(***************************************************************************)
\* Mutant: the records come back in reverse order.
ListOf_Reversed(results) ==
    LET bad == {i \in 1..Len(results) : results[i].kind = "raise"}
    IN IF bad # {}
       THEN results[CHOOSE i \in bad : \A j \in bad : i <= j]
       ELSE Return(JList([i \in 1..Len(results) |-> results[Len(results) + 1 - i].value]))

ListOf(results) ==
    LET bad == {i \in 1..Len(results) : results[i].kind = "raise"}
    IN IF bad # {}
       THEN results[CHOOSE i \in bad : \A j \in bad : i <= j]
       ELSE Return(JList([i \in 1..Len(results) |-> results[i].value]))

\* Sequences over a set, up to a length.
SeqsUpTo(S, n) == UNION {[1..k -> S] : k \in 0..n}

MaxList == 2

(***************************************************************************)
(* Service operations (services.py).                                       *)
(***************************************************************************)
Service_get_headers(key) ==
    IF Truthy(key)
    THEN ("Content-Type" :> "application/json") @@ ("Authorization" :> ("Bearer " \o key.s))
    ELSE ("Content-Type" :> "application/json")

\* The keys of a service object read with data[...], in evaluation order.
ServiceKeys ==
    <<"id", "agentId", "name", "description", "category", "price",
      "currency", "endpoint", "method", "active", "createdAt", "updatedAt">>

\* Mutant: the timeout is read from the dispute window's key.
_parse_service_TimeoutFromWindow(data) ==
    LET missing == FirstMissing(data, ServiceKeys)
    IN IF missing # "" THEN Raise("KeyError", <<missing>>)
       ELSE Return([ t |-> "Service",
                     id |-> data["id"],
                     agent_id |-> data["agentId"],
                     name |-> data["name"],
                     description |-> data["description"],
                     category |-> data["category"],
                     price |-> data["price"],
                     currency |-> data["currency"],
                     endpoint |-> data["endpoint"],
                     method |-> data["method"],
                     active |-> data["active"],
                     timeout |-> GetOr(data, "disputeWindow", JInt(30)),
                     dispute_window |-> GetOr(data, "disputeWindow", JInt(30)),
                     created_at |-> data["createdAt"],
                     updated_at |-> data["updatedAt"],
                     input_schema |-> Get(data, "inputSchema"),
                     output_schema |-> Get(data, "outputSchema") ])

_parse_service(data) ==
    LET missing == FirstMissing(data, ServiceKeys)
    IN IF missing # "" THEN Raise("KeyError", <<missing>>)
       ELSE Return([ t |-> "Service",
                     id |-> data["id"],
                     agent_id |-> data["agentId"],
                     name |-> data["name"],
                     description |-> data["description"],
                     category |-> data["category"],
                     price |-> data["price"],
                     currency |-> data["currency"],
                     endpoint |-> data["endpoint"],
                     method |-> data["method"],
                     active |-> data["active"],
                     timeout |-> GetOr(data, "timeout", JInt(30)),
                     dispute_window |-> GetOr(data, "disputeWindow", JInt(30)),
                     created_at |-> data["createdAt"],
                     updated_at |-> data["updatedAt"],
                     input_schema |-> Get(data, "inputSchema"),
                     output_schema |-> Get(data, "outputSchema") ])

\* The JSON body of register_service.
register_service_payload(a) ==
    LET payload == [ agentId |-> a.agent_id, name |-> a.name, description |-> a.description,
                     category |-> a.category, price |-> a.price,
                     currency |-> JCode(upper(a.currency.cs)), endpoint |-> a.endpoint,
                     method |-> JCode(upper(a.method.cs)), timeout |-> a.timeout,
                     disputeWindow |-> a.dispute_window ]
        p1 == IF Truthy(a.input_schema) THEN With(payload, "inputSchema", a.input_schema)
              ELSE payload
    IN IF Truthy(a.output_schema) THEN With(p1, "outputSchema", a.output_schema) ELSE p1

\* Mutant: the returned record carries the currency as the caller gave it
\* instead of the reply's.
register_service_EchoesCurrency(a, h) ==
    LET response == send(h)
        body == IF response.kind = "raise" THEN response
                ELSE LET service_data == Get(response.value.o, "service")
                     IN IF ~Truthy(service_data)
                        THEN Raise("ServiceError", <<"Invalid response: missing service data">>)
                        ELSE _parse_service(With(service_data.o, "currency", a.currency))
    IN ExceptRequestExceptionAs(body, "ServiceError", "Failed to register service: ")

register_service(a, h) ==
    LET response == send(h)
        body == IF response.kind = "raise" THEN response
                ELSE LET service_data == Get(response.value.o, "service")
                     IN IF ~Truthy(service_data)
                        THEN Raise("ServiceError", <<"Invalid response: missing service data">>)
                        ELSE _parse_service(service_data.o)
    IN ExceptRequestExceptionAs(body, "ServiceError", "Failed to register service: ")

\* The query string of search_services.
search_services_params(a) ==
    LET p0 == EmptyDict
        p1 == IF Truthy(a.keyword) THEN With(p0, "q", a.keyword.s) ELSE p0
        p2 == IF Truthy(a.category) THEN With(p1, "category", a.category.s) ELSE p1
        p3 == IF a.max_price # JNull THEN With(p2, "maxPrice", ToString(a.max_price.n)) ELSE p2
        p4 == IF a.min_rating # JNull THEN With(p3, "minRating", ToString(a.min_rating.n)) ELSE p3
        p5 == IF Truthy(a.limit) THEN With(p4, "limit", ToString(a.limit.n)) ELSE p4
    IN IF Truthy(a.offset) THEN With(p5, "offset", ToString(a.offset.n)) ELSE p5

search_services(a, h) ==
    LET response == send(h)
        body == IF response.kind = "raise" THEN response
                ELSE LET services_data == GetOr(response.value.o, "services", JList(<<>>))
                     IN IF services_data.t # "list"
                        THEN Raise("TypeError", <<"object is not iterable">>)
                        ELSE ListOf([i \in 1..Len(services_data.l) |->
                                        _parse_service(services_data.l[i].o)])
    IN ExceptRequestExceptionAs(body, "ServiceError", "Failed to search services: ")

get_service(service_id, h) ==
    LET response == send(h)
        body == IF response.kind = "raise" THEN response
                ELSE LET service_data == Get(response.value.o, "service")
                     IN IF ~Truthy(service_data)
                        THEN Raise("ServiceError", <<"Service ", service_id, " not found">>)
                        ELSE _parse_service(service_data.o)
    IN ExceptRequestExceptionAs(body, "ServiceError", "Failed to get service: ")

Schemas == {JNull, JObj(EmptyDict), JObj([type |-> JStr("object")])}

ServiceFull(id, price, currency, category) ==
    [ id |-> JStr(id), agentId |-> JStr("id1"), name |-> JStr("TextAnalyzer"),
      description |-> JStr("NLP service"), category |-> JStr(category), price |-> price,
      currency |-> JCode(currency), endpoint |-> JStr("https://agent.com/analyze"),
      method |-> JCode(<<"P", "O", "S", "T">>), active |-> JBool(TRUE),
      timeout |-> JInt(60), disputeWindow |-> JInt(15),
      createdAt |-> JStr("2026-02-14T12:00:00Z"), updatedAt |-> JStr("2026-02-14T12:00:00Z"),
      inputSchema |-> JObj([type |-> JStr("object")]),
      outputSchema |-> JObj([type |-> JStr("object")]) ]

ServiceBase == ServiceFull("id1", JInt(1), BSV, "nlp")

ServiceObjs ==
    {ServiceFull(id, price, currency, "nlp") : id \in Ids, price \in Amounts, currency \in {BSV, MNEE}}
    \cup {Drop(ServiceBase, k) : k \in DOMAIN ServiceBase}
    \cup {Drop(Drop(ServiceBase, "timeout"), "disputeWindow"), EmptyDict}

ServiceReplies ==
    {EmptyDict, [service |-> JNull]} \cup {[service |-> JObj(o)] : o \in ServiceObjs}

ServiceListItems ==
    {ServiceBase, ServiceFull("id2", JInt(MaxAmount), MNEE, "general"),
     Drop(ServiceBase, "price"), Drop(ServiceBase, "timeout")}

ServiceListReplies ==
    {EmptyDict, [services |-> JNull]}
    \cup {[services |-> JList([i \in DOMAIN l |-> JObj(l[i])])] : l \in SeqsUpTo(ServiceListItems, MaxList)}

RegisterDefaults ==
    [ agent_id |-> JStr("id1"), name |-> JStr("TextAnalyzer"), description |-> JStr("NLP service"),
      price |-> JInt(1), endpoint |-> JStr("https://agent.com/analyze"),
      category |-> JStr("general"), currency |-> JCode(BSV),
      method |-> JCode(<<"P", "O", "S", "T">>), timeout |-> JInt(30), dispute_window |-> JInt(30),
      input_schema |-> JNull, output_schema |-> JNull ]

\* Arguments of register_service: the defaults with the currency, the method,
\* the schemas, the price and the category varied.
RegisterArgs ==
    { [RegisterDefaults EXCEPT !.currency = JCode(c), !.method = JCode(m),
                               !.input_schema = i, !.output_schema = o]
        : c \in {BSV, <<"b", "s", "v">>, <<"M", "n", "e", "E">>},
          m \in {<<"P", "O", "S", "T">>, <<"p", "o", "s", "t">>, <<"G", "e", "t">>},
          i \in Schemas, o \in Schemas }
    \cup
    { [RegisterDefaults EXCEPT !.price = p, !.category = JStr(cat), !.currency = JCode(c)]
        : p \in Amounts, cat \in {"general", "nlp"}, c \in {BSV, MNEE} }

SearchDefaults ==
    [ keyword |-> JNull, category |-> JNull, max_price |-> JNull, min_rating |-> JNull,
      limit |-> JInt(20), offset |-> JInt(0) ]

SearchArgs ==
    { [ keyword |-> k, category |-> c, max_price |-> mp, min_rating |-> mr,
        limit |-> l, offset |-> o ]
        : k \in {JNull, JStr(""), JStr("nlp")}, c \in {JNull, JStr(""), JStr("nlp")},
          mp \in {JNull} \cup Amounts, mr \in {JNull, JInt(0), JInt(4)},
          l \in {JInt(0), JInt(20)}, o \in {JInt(0), JInt(MaxAmount)} }

RegisterService ==
    /\ phase = "idle"
    /\ \E a \in RegisterArgs :
        /\ Call("register_service", a)
        /\ \E h \in Transport(ServiceReplies) :
            /\ a = RegisterDefaults \/ h = Response([service |-> JObj(ServiceBase)])
            /\ requests' = <<Request("POST", _services.base_url \o "/api/services",
                                     Service_get_headers(_services.api_key),
                                     JObj(register_service_payload(a)), EmptyDict)>>
            /\ http' = h
            /\ outcome' = register_service(a, h)
    /\ phase' = "done"
    /\ UNCHANGED <<client, previous, contexts, server>>

SearchServices ==
    /\ phase = "idle"
    /\ \E a \in SearchArgs :
        /\ Call("search_services", a)
        /\ \E h \in Transport(ServiceListReplies) :
            /\ a = SearchDefaults \/ h = Response([services |-> JList(<<JObj(ServiceBase)>>)])
            /\ requests' = <<Request("GET", _services.base_url \o "/api/services",
                                     Service_get_headers(_services.api_key), JNull,
                                     search_services_params(a))>>
            /\ http' = h
            /\ outcome' = search_services(a, h)
    /\ phase' = "done"
    /\ UNCHANGED <<client, previous, contexts, server>>

GetService ==
    /\ phase = "idle"
    /\ \E service_id \in Ids :
        /\ Call("get_service", [service_id |-> service_id])
        /\ \E h \in Transport(ServiceReplies) :
            /\ requests' = <<Request("GET", _services.base_url \o "/api/services/" \o service_id,
                                     Service_get_headers(_services.api_key), JNull, EmptyDict)>>
            /\ http' = h
            /\ outcome' = get_service(service_id, h)
    /\ phase' = "done"
    /\ UNCHANGED <<client, previous, contexts, server>>

(***************************************************************************)
(* Payment and execution operations (payments.py).                         *)
(***************************************************************************)
\* Mutant: the credential goes out as x-api-key alone.
Payment_get_headers_KeyOnly(key) ==
    IF Truthy(key)
    THEN ("Content-Type" :> "application/json") @@ ("x-api-key" :> key.s)
    ELSE ("Content-Type" :> "application/json")

Payment_get_headers(key) ==
    IF Truthy(key)
    THEN ("Content-Type" :> "application/json") @@ ("Authorization" :> ("Bearer " \o key.s))
         @@ ("x-api-key" :> key.s)
    ELSE ("Content-Type" :> "application/json")

\* The keys of a payment object read with data[...], in evaluation order.
PaymentKeys ==
    <<"id", "serviceId", "buyerWalletId", "sellerWalletId", "amount",
      "platformFee", "currency", "status", "createdAt">>

_parse_payment(data) ==
    LET missing == FirstMissing(data, PaymentKeys)
    IN IF missing # "" THEN Raise("KeyError", <<missing>>)
       ELSE Return([ t |-> "Payment",
                     id |-> data["id"],
                     service_id |-> data["serviceId"],
                     buyer_wallet_id |-> data["buyerWalletId"],
                     seller_wallet_id |-> data["sellerWalletId"],
                     amount |-> data["amount"],
                     platform_fee |-> data["platformFee"],
                     currency |-> data["currency"],
                     status |-> data["status"],
                     created_at |-> data["createdAt"],
                     dispute_status |-> Get(data, "disputeStatus"),
                     tx_id |-> Get(data, "txId"),
                     completed_at |-> Get(data, "completedAt") ])

\* The keys of a receipt object read with data[...], in evaluation order.
ReceiptKeys ==
    <<"id", "paymentId", "serviceId", "inputHash", "outputHash", "timestamp",
      "executionTimeMs", "providerSignature", "platformSignature",
      "receiptHash">>

_parse_receipt(data) ==
    LET missing == FirstMissing(data, ReceiptKeys)
    IN IF missing # "" THEN Raise("KeyError", <<missing>>)
       ELSE Return([ t |-> "ExecutionReceipt",
                     id |-> data["id"],
                     payment_id |-> data["paymentId"],
                     service_id |-> data["serviceId"],
                     input_hash |-> data["inputHash"],
                     output_hash |-> data["outputHash"],
                     timestamp |-> data["timestamp"],
                     execution_time_ms |-> data["executionTimeMs"],
                     provider_signature |-> data["providerSignature"],
                     platform_signature |-> data["platformSignature"],
                     receipt_hash |-> data["receiptHash"],
                     blockchain_tx_id |-> Get(data, "blockchainTxId"),
                     blockchain_anchored_at |-> Get(data, "blockchainAnchoredAt") ])

\* Mutant: the payment id is read with data.get("paymentId", "").
ExecutionResult_DefaultsPaymentId(data, service_id, receipt, payment) ==
    Return([ t |-> "ExecutionResult",
             payment_id |-> GetOr(data, "paymentId", JStr("")),
             service_id |-> GetOr(data, "serviceId", JStr(service_id)),
             output |-> GetOr(data, "output", JObj(EmptyDict)),
             execution_time_ms |-> GetOr(data, "executionTimeMs", JInt(0)),
             status |-> GetOr(data, "status", JStr("pending")),
             receipt |-> receipt,
             payment |-> payment ])

\* ExecutionResult(payment_id=data["paymentId"], service_id=data.get("serviceId", service_id), ...)
ExecutionResult(data, service_id, receipt, payment) ==
    IF "paymentId" \notin DOMAIN data THEN Raise("KeyError", <<"paymentId">>)
    ELSE Return([ t |-> "ExecutionResult",
                  payment_id |-> data["paymentId"],
                  service_id |-> GetOr(data, "serviceId", JStr(service_id)),
                  output |-> GetOr(data, "output", JObj(EmptyDict)),
                  execution_time_ms |-> GetOr(data, "executionTimeMs", JInt(0)),
                  status |-> GetOr(data, "status", JStr("pending")),
                  receipt |-> receipt,
                  payment |-> payment ])

\* Mutant: the embedded payment is parsed only when a receipt is embedded.
execute_PaymentNeedsReceipt(service_id, buyer_wallet_id, input_data, h) ==
    LET response == send(h)
        body ==
            IF response.kind = "raise" THEN response
            ELSE LET data == response.value.o
                     hasReceipt == "receipt" \in DOMAIN data /\ Truthy(data["receipt"])
                     receipt == IF hasReceipt THEN _parse_receipt(data["receipt"].o)
                                ELSE Return(JNull)
                     payment == IF hasReceipt /\ "payment" \in DOMAIN data /\ Truthy(data["payment"])
                                THEN _parse_payment(data["payment"].o)
                                ELSE Return(JNull)
                 IN IF receipt.kind = "raise" THEN receipt
                    ELSE IF payment.kind = "raise" THEN payment
                    ELSE ExecutionResult(data, service_id, receipt.value, payment.value)
    IN ExceptRequestExceptionAs(body, "ExecutionError", "Service execution failed: ")

execute(service_id, buyer_wallet_id, input_data, h) ==
    LET response == send(h)
        body ==
            IF response.kind = "raise" THEN response
            ELSE LET data == response.value.o
                     receipt == IF "receipt" \in DOMAIN data /\ Truthy(data["receipt"])
                                THEN _parse_receipt(data["receipt"].o)
                                ELSE Return(JNull)
                     payment == IF "payment" \in DOMAIN data /\ Truthy(data["payment"])
                                THEN _parse_payment(data["payment"].o)
                                ELSE Return(JNull)
                 IN IF receipt.kind = "raise" THEN receipt
                    ELSE IF payment.kind = "raise" THEN payment
                    ELSE ExecutionResult(data, service_id, receipt.value, payment.value)
    IN ExceptRequestExceptionAs(body, "ExecutionError", "Service execution failed: ")

get_payment(payment_id, h) ==
    LET response == send(h)
        body == IF response.kind = "raise" THEN response
                ELSE LET payment_data == Get(response.value.o, "payment")
                     IN IF ~Truthy(payment_data)
                        THEN Raise("PaymentError", <<"Payment ", payment_id, " not found">>)
                        ELSE _parse_payment(payment_data.o)
    IN ExceptRequestExceptionAs(body, "PaymentError", "Failed to get payment: ")

\* Mutant: the receipt is read with data["receipt"] and no check follows.
get_receipt_IndexesKey(receipt_id, h) ==
    LET response == send(h)
        body == IF response.kind = "raise" THEN response
                ELSE IF "receipt" \notin DOMAIN response.value.o
                THEN Raise("KeyError", <<"receipt">>)
                ELSE IF ~Truthy(response.value.o["receipt"])
                THEN Raise("PaymentError", <<"Receipt ", receipt_id, " not found">>)
                ELSE _parse_receipt(response.value.o["receipt"].o)
    IN ExceptRequestExceptionAs(body, "PaymentError", "Failed to get receipt: ")

get_receipt(receipt_id, h) ==
    LET response == send(h)
        body == IF response.kind = "raise" THEN response
                ELSE LET receipt_data == Get(response.value.o, "receipt")
                     IN IF ~Truthy(receipt_data)
                        THEN Raise("PaymentError", <<"Receipt ", receipt_id, " not found">>)
                        ELSE _parse_receipt(receipt_data.o)
    IN ExceptRequestExceptionAs(body, "PaymentError", "Failed to get receipt: ")

\* ExecutionStatus = Literal["success", "error"]
ExecutionStatus == {"success", "error"}

PaymentFull(id) ==
    [ id |-> JStr(id), serviceId |-> JStr("id1"), buyerWalletId |-> JStr("id1"),
      sellerWalletId |-> JStr("id2"), amount |-> JInt(MaxAmount), platformFee |-> JInt(1),
      currency |-> JCode(BSV), status |-> JStr("escrowed"),
      createdAt |-> JStr("2026-02-14T12:00:00Z"), disputeStatus |-> JStr("open"),
      txId |-> JStr("tx1"), completedAt |-> JStr("2026-02-14T12:00:01Z") ]

ReceiptFull(id) ==
    [ id |-> JStr(id), paymentId |-> JStr("id1"), serviceId |-> JStr("id1"),
      inputHash |-> JStr("h_in"), outputHash |-> JStr("h_out"), timestamp |-> JInt(1),
      executionTimeMs |-> JInt(MaxAmount), providerSignature |-> JStr("sig_provider"),
      platformSignature |-> JStr("sig_platform"), receiptHash |-> JStr("h_receipt"),
      blockchainTxId |-> JStr("tx1"), blockchainAnchoredAt |-> JStr("2026-02-14T12:00:02Z") ]

\* Every way of leaving one key out of an object, and the empty object.
Lacking(full) == {Drop(full, k) : k \in DOMAIN full} \cup {EmptyDict}

PaymentObjs == {PaymentFull(id) : id \in Ids} \cup Lacking(PaymentFull("id1"))
ReceiptObjs == {ReceiptFull(id) : id \in Ids} \cup Lacking(ReceiptFull("id1"))

PaymentReplies ==
    {EmptyDict, [payment |-> JNull]} \cup {[payment |-> JObj(o)] : o \in PaymentObjs}
ReceiptReplies ==
    {EmptyDict, [receipt |-> JNull]} \cup {[receipt |-> JObj(o)] : o \in ReceiptObjs}

ExecFull(status) ==
    [ paymentId |-> JStr("id1"), serviceId |-> JStr("id1"),
      output |-> JObj([result |-> JStr("analyzed")]), executionTimeMs |-> JInt(MaxAmount),
      status |-> JStr(status) ]

\* Top-level fields of an execute reply without the embedded objects.
ExecPlain ==
    LET full == {ExecFull(st) : st \in ExecutionStatus}
        part == {Drop(ExecFull("success"), k) : k \in {"serviceId", "output", "executionTimeMs", "status"}}
                \cup {[paymentId |-> JStr("id1")]}
        withId == full \cup part
    IN withId \cup {Drop(d, "paymentId") : d \in withId}

\* The forms of an embedded object: absent (the reply unchanged), null, or an object.
Embed(d, key, forms) == {d} \cup {With(d, key, f) : f \in forms}

ExecReplies ==
    LET good == UNION { Embed(r, "payment", {JNull, JObj(PaymentFull("id1"))})
                        : r \in UNION { Embed(d, "receipt", {JNull, JObj(ReceiptFull("id1"))})
                                        : d \in ExecPlain } }
        whole == {ExecFull("success"), Drop(ExecFull("success"), "paymentId")}
        badReceipt == UNION { {With(d, "receipt", JObj(o)),
                               With(With(d, "receipt", JObj(o)), "payment", JObj(PaymentFull("id1")))}
                              : d \in whole, o \in Lacking(ReceiptFull("id1")) }
        badPayment == UNION { {With(d, "payment", JObj(o)),
                               With(With(d, "payment", JObj(o)), "receipt", JObj(ReceiptFull("id1")))}
                              : d \in whole, o \in Lacking(PaymentFull("id1")) }
    IN good \cup badReceipt \cup badPayment

Inputs == {JObj(EmptyDict), JObj([text |-> JStr("Test")])}

Execute ==
    /\ phase = "idle"
    /\ \E service_id \in Ids, buyer_wallet_id \in Ids, input_data \in Inputs :
        /\ Call("execute", [service_id |-> service_id, buyer_wallet_id |-> buyer_wallet_id,
                    input_data |-> input_data])
        /\ \E h \in Transport(ExecReplies) :
            /\ (buyer_wallet_id = "id1" /\ input_data = JObj(EmptyDict))
               \/ h = Response(ExecFull("success"))
            /\ requests' = <<Request("POST", _payments.base_url \o "/api/execute/" \o service_id,
                                     Payment_get_headers(_payments.api_key),
                                     JObj([buyerWalletId |-> JStr(buyer_wallet_id), input |-> input_data]),
                                     EmptyDict)>>
            /\ http' = h
            /\ outcome' = execute(service_id, buyer_wallet_id, input_data, h)
    /\ phase' = "done"
    /\ UNCHANGED <<client, previous, contexts, server>>

GetPayment ==
    /\ phase = "idle"
    /\ \E payment_id \in Ids :
        /\ Call("get_payment", [payment_id |-> payment_id])
        /\ \E h \in Transport(PaymentReplies) :
            /\ requests' = <<Request("GET", _payments.base_url \o "/api/payments/" \o payment_id,
                                     Payment_get_headers(_payments.api_key), JNull, EmptyDict)>>
            /\ http' = h
            /\ outcome' = get_payment(payment_id, h)
    /\ phase' = "done"
    /\ UNCHANGED <<client, previous, contexts, server>>

GetReceipt ==
    /\ phase = "idle"
    /\ \E receipt_id \in Ids :
        /\ Call("get_receipt", [receipt_id |-> receipt_id])
        /\ \E h \in Transport(ReceiptReplies) :
            /\ requests' = <<Request("GET", _payments.base_url \o "/api/receipts/" \o receipt_id,
                                     Payment_get_headers(_payments.api_key), JNull, EmptyDict)>>
            /\ http' = h
            /\ outcome' = get_receipt(receipt_id, h)
    /\ phase' = "done"
    /\ UNCHANGED <<client, previous, contexts, server>>

(***************************************************************************)
(* Dispute operations (disputes.py).                                       *)
(***************************************************************************)
Dispute_get_headers(key) ==
    IF Truthy(key)
    THEN ("Content-Type" :> "application/json") @@ ("Authorization" :> ("Bearer " \o key.s))
         @@ ("x-api-key" :> key.s)
    ELSE ("Content-Type" :> "application/json")

\* The keys of a dispute object read with data[...], in evaluation order.
DisputeKeys ==
    <<"id", "paymentId", "buyerWalletId", "providerWalletId", "reason",
      "status", "createdAt">>

\* Mutant: the record's id is read from the payment id of the dispute.
_parse_dispute_IdOfPayment(data) ==
    LET missing == FirstMissing(data, DisputeKeys)
    IN IF missing # "" THEN Raise("KeyError", <<missing>>)
       ELSE Return([ t |-> "Dispute",
                     id |-> data["paymentId"],
                     payment_id |-> data["paymentId"],
                     buyer_wallet_id |-> data["buyerWalletId"],
                     provider_wallet_id |-> data["providerWalletId"],
                     reason |-> data["reason"],
                     status |-> data["status"],
                     created_at |-> data["createdAt"],
                     evidence |-> Get(data, "evidence"),
                     resolution |-> Get(data, "resolution"),
                     split_percent |-> Get(data, "splitPercent"),
                     resolved_at |-> Get(data, "resolvedAt") ])

_parse_dispute(data) ==
    LET missing == FirstMissing(data, DisputeKeys)
    IN IF missing # "" THEN Raise("KeyError", <<missing>>)
       ELSE Return([ t |-> "Dispute",
                     id |-> data["id"],
                     payment_id |-> data["paymentId"],
                     buyer_wallet_id |-> data["buyerWalletId"],
                     provider_wallet_id |-> data["providerWalletId"],
                     reason |-> data["reason"],
                     status |-> data["status"],
                     created_at |-> data["createdAt"],
                     evidence |-> Get(data, "evidence"),
                     resolution |-> Get(data, "resolution"),
                     split_percent |-> Get(data, "splitPercent"),
                     resolved_at |-> Get(data, "resolvedAt") ])

\* The JSON body of open_dispute.
open_dispute_payload(payment_id, reason, evidence) ==
    LET payload == [paymentId |-> JStr(payment_id), reason |-> reason]
    IN IF Truthy(evidence) THEN With(payload, "evidence", evidence) ELSE payload

open_dispute(payment_id, reason, evidence, h) ==
    LET response == send(h)
        body == IF response.kind = "raise" THEN response
                ELSE LET dispute_data == Get(response.value.o, "dispute")
                     IN IF ~Truthy(dispute_data)
                        THEN Raise("DisputeError", <<"Invalid response: missing dispute data">>)
                        ELSE _parse_dispute(dispute_data.o)
    IN ExceptRequestExceptionAs(body, "DisputeError", "Failed to open dispute: ")

get_dispute(dispute_id, h) ==
    LET response == send(h)
        body == IF response.kind = "raise" THEN response
                ELSE LET dispute_data == Get(response.value.o, "dispute")
                     IN IF ~Truthy(dispute_data)
                        THEN Raise("DisputeError", <<"Dispute ", dispute_id, " not found">>)
                        ELSE _parse_dispute(dispute_data.o)
    IN ExceptRequestExceptionAs(body, "DisputeError", "Failed to get dispute: ")

\* Mutant: the whole collection is parsed and returned, without the filter.
get_payment_disputes_Unfiltered(payment_id, h) ==
    LET response == send(h)
        body == IF response.kind = "raise" THEN response
                ELSE LET disputes_data == GetOr(response.value.o, "disputes", JList(<<>>))
                     IN IF disputes_data.t # "list"
                        THEN Raise("TypeError", <<"object is not iterable">>)
                        ELSE ListOf([i \in 1..Len(disputes_data.l) |->
                                        _parse_dispute(disputes_data.l[i].o)])
    IN ExceptRequestExceptionAs(body, "DisputeError", "Failed to get payment disputes: ")

\* Mutant: every entry is parsed, and the parsed disputes are filtered.
get_payment_disputes_ParsesFirst(payment_id, h) ==
    LET response == send(h)
        body == IF response.kind = "raise" THEN response
                ELSE LET disputes_data == GetOr(response.value.o, "disputes", JList(<<>>))
                     IN IF disputes_data.t # "list"
                        THEN Raise("TypeError", <<"object is not iterable">>)
                        ELSE LET parsed == ListOf([i \in 1..Len(disputes_data.l) |->
                                                       _parse_dispute(disputes_data.l[i].o)])
                             IN IF parsed.kind = "raise" THEN parsed
                                ELSE Return(JList(SelectSeq(parsed.value.l,
                                                LAMBDA d : d.payment_id = JStr(payment_id))))
    IN ExceptRequestExceptionAs(body, "DisputeError", "Failed to get payment disputes: ")

get_payment_disputes(payment_id, h) ==
    LET response == send(h)
        body == IF response.kind = "raise" THEN response
                ELSE LET disputes_data == GetOr(response.value.o, "disputes", JList(<<>>))
                     IN IF disputes_data.t # "list"
                        THEN Raise("TypeError", <<"object is not iterable">>)
                        ELSE LET filtered == SelectSeq(disputes_data.l,
                                                 LAMBDA d : Get(d.o, "paymentId") = JStr(payment_id))
                             IN ListOf([i \in 1..Len(filtered) |-> _parse_dispute(filtered[i].o)])
    IN ExceptRequestExceptionAs(body, "DisputeError", "Failed to get payment disputes: ")

\* Mutant: evidence that is empty is accepted without an error.
add_evidence_AcceptsEmpty(dispute_id, evidence) ==
    IF Truthy(evidence)
    THEN Raise("DisputeError",
               <<"Adding evidence after opening a dispute is not supported by this API version. ",
                 "Pass evidence when calling open_dispute(...).">>)
    ELSE Return(JNull)

add_evidence(dispute_id, evidence) ==
    Raise("DisputeError",
          <<"Adding evidence after opening a dispute is not supported by this API version. ",
            "Pass evidence when calling open_dispute(...).">>)

DisputeFull(id, payment_id) ==
    [ id |-> JStr(id), paymentId |-> JStr(payment_id), buyerWalletId |-> JStr("id1"),
      providerWalletId |-> JStr("id2"), reason |-> JStr("no output"), status |-> JStr("open"),
      createdAt |-> JStr("2026-02-14T12:00:00Z"), evidence |-> JStr("log"),
      resolution |-> JStr("split"), splitPercent |-> JInt(MaxAmount),
      resolvedAt |-> JStr("2026-02-14T13:00:00Z") ]

DisputeObjs == {DisputeFull(id, "id1") : id \in Ids} \cup Lacking(DisputeFull("id1", "id1"))

DisputeReplies ==
    {EmptyDict, [dispute |-> JNull]} \cup {[dispute |-> JObj(o)] : o \in DisputeObjs}

DisputeListItems ==
    { DisputeFull("id1", "id1"), DisputeFull("id2", "id2"), DisputeFull("id2", "id1"),
      Drop(DisputeFull("id2", "id1"), "reason"), Drop(DisputeFull("id1", "id1"), "paymentId") }

DisputeListReplies ==
    {EmptyDict, [disputes |-> JNull]}
    \cup {[disputes |-> JList([i \in DOMAIN l |-> JObj(l[i])])] : l \in SeqsUpTo(DisputeListItems, MaxList)}

Evidences == {JNull, JStr(""), JStr("log")}

OpenDispute ==
    /\ phase = "idle"
    /\ \E payment_id \in Ids, evidence \in Evidences :
        /\ Call("open_dispute", [payment_id |-> payment_id, reason |-> JStr("no output"), evidence |-> evidence])
        /\ \E h \in Transport(DisputeReplies) :
            /\ (payment_id = "id1" /\ evidence = JNull)
               \/ h = Response([dispute |-> JObj(DisputeFull("id1", "id1"))])
            /\ requests' = <<Request("POST", _disputes.base_url \o "/api/disputes",
                                     Dispute_get_headers(_disputes.api_key),
                                     JObj(open_dispute_payload(payment_id, JStr("no output"), evidence)),
                                     EmptyDict)>>
            /\ http' = h
            /\ outcome' = open_dispute(payment_id, JStr("no output"), evidence, h)
    /\ phase' = "done"
    /\ UNCHANGED <<client, previous, contexts, server>>

GetDispute ==
    /\ phase = "idle"
    /\ \E dispute_id \in Ids :
        /\ Call("get_dispute", [dispute_id |-> dispute_id])
        /\ \E h \in Transport(DisputeReplies) :
            /\ requests' = <<Request("GET", _disputes.base_url \o "/api/disputes/" \o dispute_id,
                                     Dispute_get_headers(_disputes.api_key), JNull, EmptyDict)>>
            /\ http' = h
            /\ outcome' = get_dispute(dispute_id, h)
    /\ phase' = "done"
    /\ UNCHANGED <<client, previous, contexts, server>>

GetPaymentDisputes ==
    /\ phase = "idle"
    /\ \E payment_id \in Ids :
        /\ Call("get_payment_disputes", [payment_id |-> payment_id])
        /\ \E h \in Transport(DisputeListReplies) :
            /\ requests' = <<Request("GET", _disputes.base_url \o "/api/disputes",
                                     Dispute_get_headers(_disputes.api_key), JNull, EmptyDict)>>
            /\ http' = h
            /\ outcome' = get_payment_disputes(payment_id, h)
    /\ phase' = "done"
    /\ UNCHANGED <<client, previous, contexts, server>>

AddEvidence ==
    /\ phase = "idle"
    /\ \E dispute_id \in Ids, evidence \in Evidences :
        /\ Call("add_dispute_evidence", [dispute_id |-> dispute_id, evidence |-> evidence])
        /\ requests' = <<>>
        /\ http' = Response(EmptyDict)
        /\ outcome' = add_evidence(dispute_id, evidence)
    /\ phase' = "done"
    /\ UNCHANGED <<client, previous, contexts, server>>

(***************************************************************************)
(* Webhook operations (webhooks.py).                                       *)
(***************************************************************************)
Webhook_get_headers(key) ==
    IF Truthy(key)
    THEN ("Content-Type" :> "application/json") @@ ("Authorization" :> ("Bearer " \o key.s))
         @@ ("x-api-key" :> key.s)
    ELSE ("Content-Type" :> "application/json")

\* The keys of a webhook object read with data[...], in evaluation order.
WebhookKeys ==
    <<"id", "url", "events", "active", "createdAt">>

_parse_webhook(data) ==
    LET missing == FirstMissing(data, WebhookKeys)
    IN IF missing # "" THEN Raise("KeyError", <<missing>>)
       ELSE Return([ t |-> "Webhook",
                     id |-> data["id"],
                     url |-> data["url"],
                     events |-> data["events"],
                     active |-> data["active"],
                     created_at |-> data["createdAt"],
                     secret |-> Get(data, "secret") ])

register_webhook(url, events, h) ==
    LET response == send(h)
        body == IF response.kind = "raise" THEN response
                ELSE LET webhook_data == Get(response.value.o, "webhook")
                     IN IF ~Truthy(webhook_data)
                        THEN Raise("WebhookError", <<"Invalid response: missing webhook data">>)
                        ELSE _parse_webhook(webhook_data.o)
    IN ExceptRequestExceptionAs(body, "WebhookError", "Failed to register webhook: ")

list_webhooks(h) ==
    LET response == send(h)
        body == IF response.kind = "raise" THEN response
                ELSE LET webhooks_data == GetOr(response.value.o, "webhooks", JList(<<>>))
                     IN IF webhooks_data.t # "list"
                        THEN Raise("TypeError", <<"object is not iterable">>)
                        ELSE ListOf([i \in 1..Len(webhooks_data.l) |->
                                        _parse_webhook(webhooks_data.l[i].o)])
    IN ExceptRequestExceptionAs(body, "WebhookError", "Failed to list webhooks: ")

\* Mutant: only the first listed webhook is looked at.
get_webhook_FirstOnly(webhook_id, h) ==
    LET webhooks == list_webhooks(h)
        body == IF webhooks.kind = "raise" THEN webhooks
                ELSE IF /\ webhooks.value.l # <<>>
                        /\ webhooks.value.l[1].id = JStr(webhook_id)
                     THEN Return(webhooks.value.l[1])
                     ELSE Raise("WebhookError", <<"Webhook ", webhook_id, " not found">>)
    IN IF body.kind = "raise" /\ IsInstance(body.exc, "WebhookError") THEN body
       ELSE ExceptRequestExceptionAs(body, "WebhookError", "Failed to get webhook: ")

get_webhook(webhook_id, h) ==
    LET webhooks == list_webhooks(h)
        body == IF webhooks.kind = "raise" THEN webhooks
                ELSE LET found == {i \in 1..Len(webhooks.value.l) :
                                      webhooks.value.l[i].id = JStr(webhook_id)}
                     IN IF found # {}
                        THEN Return(webhooks.value.l[CHOOSE i \in found : \A j \in found : i <= j])
                        ELSE Raise("WebhookError", <<"Webhook ", webhook_id, " not found">>)
    IN IF body.kind = "raise" /\ IsInstance(body.exc, "WebhookError") THEN body
       ELSE ExceptRequestExceptionAs(body, "WebhookError", "Failed to get webhook: ")

\* Mutant: the result is read off the reply body.
delete_webhook_ReadsBody(webhook_id, h) ==
    LET response == send(h)
        body == IF response.kind = "raise" THEN response
                ELSE Return(JBool(Truthy(Get(response.value.o, "webhook"))))
    IN ExceptRequestExceptionAs(body, "WebhookError", "Failed to delete webhook: ")

delete_webhook(webhook_id, h) ==
    LET response == send(h)
        body == IF response.kind = "raise" THEN response ELSE Return(JBool(TRUE))
    IN ExceptRequestExceptionAs(body, "WebhookError", "Failed to delete webhook: ")

\* Mutant: a field is sent only when its value is truthy.
update_webhook_payload_Truthy(url, events, active) ==
    LET p0 == EmptyDict
        p1 == IF Truthy(url) THEN With(p0, "url", url) ELSE p0
        p2 == IF Truthy(events) THEN With(p1, "events", events) ELSE p1
    IN IF Truthy(active) THEN With(p2, "active", active) ELSE p2

\* The JSON body of update_webhook.
update_webhook_payload(url, events, active) ==
    LET p0 == EmptyDict
        p1 == IF url # JNull THEN With(p0, "url", url) ELSE p0
        p2 == IF events # JNull THEN With(p1, "events", events) ELSE p1
    IN IF active # JNull THEN With(p2, "active", active) ELSE p2

update_webhook(webhook_id, url, events, active, h) ==
    LET response == send(h)
        body == IF response.kind = "raise" THEN response
                ELSE LET webhook_data == Get(response.value.o, "webhook")
                     IN IF ~Truthy(webhook_data)
                        THEN Raise("WebhookError", <<"Invalid response: missing webhook data">>)
                        ELSE _parse_webhook(webhook_data.o)
    IN ExceptRequestExceptionAs(body, "WebhookError", "Failed to update webhook: ")

WebhookFull(id) ==
    [ id |-> JStr(id), url |-> JStr("https://example.com/webhook"),
      events |-> JList(<<JStr("payment.completed")>>), active |-> JBool(TRUE),
      createdAt |-> JStr("2026-02-14T12:00:00Z"), secret |-> JStr("whsec") ]

WebhookObjs == {WebhookFull(id) : id \in Ids} \cup Lacking(WebhookFull("id1"))

WebhookReplies ==
    {EmptyDict, [webhook |-> JNull]} \cup {[webhook |-> JObj(o)] : o \in WebhookObjs}

WebhookListItems ==
    {WebhookFull(id) : id \in Ids} \cup {Drop(WebhookFull("id1"), "url"), Drop(WebhookFull("id2"), "secret")}

WebhookListReplies ==
    {EmptyDict, [webhooks |-> JNull]}
    \cup {[webhooks |-> JList([i \in DOMAIN l |-> JObj(l[i])])] : l \in SeqsUpTo(WebhookListItems, MaxList)}

Urls == {JStr(""), JStr("https://example.com/webhook")}
EventLists == {JList(<<>>), JList(<<JStr("payment.completed")>>),
               JList(<<JStr("payment.completed"), JStr("dispute.opened")>>)}

RegisterWebhook ==
    /\ phase = "idle"
    /\ \E url \in Urls, events \in EventLists :
        /\ Call("register_webhook", [url |-> url, events |-> events])
        /\ \E h \in Transport(WebhookReplies) :
            /\ (url = JStr("https://example.com/webhook") /\ events = JList(<<JStr("payment.completed")>>))
               \/ h = Response([webhook |-> JObj(WebhookFull("id1"))])
            /\ requests' = <<Request("POST", _webhooks.base_url \o "/api/webhooks",
                                     Webhook_get_headers(_webhooks.api_key),
                                     JObj([url |-> url, events |-> events]), EmptyDict)>>
            /\ http' = h
            /\ outcome' = register_webhook(url, events, h)
    /\ phase' = "done"
    /\ UNCHANGED <<client, previous, contexts, server>>

GetWebhook ==
    /\ phase = "idle"
    /\ \E webhook_id \in Ids :
        /\ Call("get_webhook", [webhook_id |-> webhook_id])
        /\ \E h \in Transport(WebhookListReplies) :
            /\ requests' = <<Request("GET", _webhooks.base_url \o "/api/webhooks",
                                     Webhook_get_headers(_webhooks.api_key), JNull, EmptyDict)>>
            /\ http' = h
            /\ outcome' = get_webhook(webhook_id, h)
    /\ phase' = "done"
    /\ UNCHANGED <<client, previous, contexts, server>>

ListWebhooks ==
    /\ phase = "idle"
    /\ Call("list_webhooks", EmptyDict)
    /\ \E h \in Transport(WebhookListReplies) :
        /\ requests' = <<Request("GET", _webhooks.base_url \o "/api/webhooks",
                                 Webhook_get_headers(_webhooks.api_key), JNull, EmptyDict)>>
        /\ http' = h
        /\ outcome' = list_webhooks(h)
    /\ phase' = "done"
    /\ UNCHANGED <<client, previous, contexts, server>>

\* Mutant: the webhook is deleted with a POST.
DeleteWebhook_ByPost ==
    /\ phase = "idle"
    /\ \E webhook_id \in Ids :
        /\ Call("delete_webhook", [webhook_id |-> webhook_id])
        /\ \E h \in Transport(WebhookReplies) :
            /\ requests' = <<Request("POST", _webhooks.base_url \o "/api/webhooks/" \o webhook_id,
                                     Webhook_get_headers(_webhooks.api_key), JNull, EmptyDict)>>
            /\ http' = h
            /\ outcome' = delete_webhook(webhook_id, h)
    /\ phase' = "done"
    /\ UNCHANGED <<client, previous, contexts, server>>

DeleteWebhook ==
    /\ phase = "idle"
    /\ \E webhook_id \in Ids :
        /\ Call("delete_webhook", [webhook_id |-> webhook_id])
        /\ \E h \in Transport(WebhookReplies) :
            /\ requests' = <<Request("DELETE", _webhooks.base_url \o "/api/webhooks/" \o webhook_id,
                                     Webhook_get_headers(_webhooks.api_key), JNull, EmptyDict)>>
            /\ http' = h
            /\ outcome' = delete_webhook(webhook_id, h)
    /\ phase' = "done"
    /\ UNCHANGED <<client, previous, contexts, server>>

UpdateWebhook ==
    /\ phase = "idle"
    /\ \E webhook_id \in Ids, url \in Urls \cup {JNull}, events \in EventLists \cup {JNull},
          active \in {JNull, JBool(FALSE), JBool(TRUE)} :
        /\ Call("update_webhook", [webhook_id |-> webhook_id, url |-> url, events |-> events, active |-> active])
        /\ \E h \in Transport(WebhookReplies) :
            /\ (url = JNull /\ events = JNull /\ active = JBool(FALSE))
               \/ h = Response([webhook |-> JObj(WebhookFull("id1"))])
            /\ requests' = <<Request("PUT", _webhooks.base_url \o "/api/webhooks/" \o webhook_id,
                                     Webhook_get_headers(_webhooks.api_key),
                                     JObj(update_webhook_payload(url, events, active)), EmptyDict)>>
            /\ http' = h
            /\ outcome' = update_webhook(webhook_id, url, events, active, h)
    /\ phase' = "done"
    /\ UNCHANGED <<client, previous, contexts, server>>

(***************************************************************************)
(* Reputation lookup (client.py).                                          *)
(***************************************************************************)
\* The keys of a reputation object read with rep_data[...], in evaluation order.
ReputationKeys ==
    <<"agentId", "totalJobs", "successRate", "avgResponseTimeMs",
      "totalEarned", "totalSpent", "rating">>

\* Mutant: a reputation object without a rating gets the rating 0.
ReputationScore_DefaultsRating(rep_data) ==
    LET missing == FirstMissing(rep_data, SubSeq(ReputationKeys, 1, 6))
    IN IF missing # "" THEN Raise("KeyError", <<missing>>)
       ELSE Return([ t |-> "ReputationScore",
                     agent_id |-> rep_data["agentId"],
                     total_jobs |-> rep_data["totalJobs"],
                     success_rate |-> rep_data["successRate"],
                     avg_response_time_ms |-> rep_data["avgResponseTimeMs"],
                     total_earned |-> rep_data["totalEarned"],
                     total_spent |-> rep_data["totalSpent"],
                     rating |-> GetOr(rep_data, "rating", JInt(0)) ])

ReputationScore(rep_data) ==
    LET missing == FirstMissing(rep_data, ReputationKeys)
    IN IF missing # "" THEN Raise("KeyError", <<missing>>)
       ELSE Return([ t |-> "ReputationScore",
                     agent_id |-> rep_data["agentId"],
                     total_jobs |-> rep_data["totalJobs"],
                     success_rate |-> rep_data["successRate"],
                     avg_response_time_ms |-> rep_data["avgResponseTimeMs"],
                     total_earned |-> rep_data["totalEarned"],
                     total_spent |-> rep_data["totalSpent"],
                     rating |-> rep_data["rating"] ])

get_reputation(agent_id, h) ==
    LET response == send(h)
        body == IF response.kind = "raise" THEN response
                ELSE LET rep_data == Get(response.value.o, "reputation")
                     IN IF ~Truthy(rep_data)
                        THEN Raise("AgentPayError", <<"Reputation for agent ", agent_id, " not found">>)
                        ELSE ReputationScore(rep_data.o)
    IN ExceptRequestExceptionAs(body, "AgentPayError", "Failed to get reputation: ")

ReputationFull(id) ==
    [ agentId |-> JStr(id), totalJobs |-> JInt(MaxAmount), successRate |-> JInt(1),
      avgResponseTimeMs |-> JInt(MaxAmount), totalEarned |-> JInt(1), totalSpent |-> JInt(0),
      rating |-> JInt(1) ]

ReputationObjs == {ReputationFull(id) : id \in Ids} \cup Lacking(ReputationFull("id1"))

ReputationReplies ==
    {EmptyDict, [reputation |-> JNull]} \cup {[reputation |-> JObj(o)] : o \in ReputationObjs}

GetReputation ==
    /\ phase = "idle"
    /\ \E agent_id \in Ids :
        /\ Call("get_reputation", [agent_id |-> agent_id])
        /\ \E h \in Transport(ReputationReplies) :
            /\ requests' = <<Request("GET", base_url \o "/api/agents/" \o agent_id \o "/reputation",
                                     Wallet_get_headers(api_key), JNull, EmptyDict)>>
            /\ http' = h
            /\ outcome' = get_reputation(agent_id, h)
    /\ phase' = "done"
    /\ UNCHANGED <<client, previous, contexts, server>>

(***************************************************************************)
(* Every operation as a function of the call: the requests it issues, read *)
(* off the client it is called on, and its outcome for the transport's     *)
(* behaviour.  self is the client: its own attributes and its five groups. *)
(***************************************************************************)
Self ==
    [ base_url |-> base_url, api_key |-> api_key, _wallet |-> _wallet, _services |-> _services,
      _payments |-> _payments, _disputes |-> _disputes, _webhooks |-> _webhooks ]

RequestsOf(name, a, self) ==
    CASE name = "create_wallet" ->
           <<Request("POST", self._wallet.base_url \o "/api/wallets",
                     Wallet_get_headers(self._wallet.api_key), JNull, EmptyDict)>>
      [] name \in {"get_wallet", "get_balance"} ->
           <<Request("GET", self._wallet.base_url \o "/api/wallets/" \o a.wallet_id,
                     Wallet_get_headers(self._wallet.api_key), JNull, EmptyDict)>>
      [] name = "register_service" ->
           <<Request("POST", self._services.base_url \o "/api/services",
                     Service_get_headers(self._services.api_key),
                     JObj(register_service_payload(a)), EmptyDict)>>
      [] name = "search_services" ->
           <<Request("GET", self._services.base_url \o "/api/services",
                     Service_get_headers(self._services.api_key), JNull,
                     search_services_params(a))>>
      [] name = "get_service" ->
           <<Request("GET", self._services.base_url \o "/api/services/" \o a.service_id,
                     Service_get_headers(self._services.api_key), JNull, EmptyDict)>>
      [] name = "execute" ->
           <<Request("POST", self._payments.base_url \o "/api/execute/" \o a.service_id,
                     Payment_get_headers(self._payments.api_key),
                     JObj([buyerWalletId |-> JStr(a.buyer_wallet_id), input |-> a.input_data]),
                     EmptyDict)>>
      [] name = "get_payment" ->
           <<Request("GET", self._payments.base_url \o "/api/payments/" \o a.payment_id,
                     Payment_get_headers(self._payments.api_key), JNull, EmptyDict)>>
      [] name = "get_receipt" ->
           <<Request("GET", self._payments.base_url \o "/api/receipts/" \o a.receipt_id,
                     Payment_get_headers(self._payments.api_key), JNull, EmptyDict)>>
      [] name = "open_dispute" ->
           <<Request("POST", self._disputes.base_url \o "/api/disputes",
                     Dispute_get_headers(self._disputes.api_key),
                     JObj(open_dispute_payload(a.payment_id, a.reason, a.evidence)), EmptyDict)>>
      [] name = "get_dispute" ->
           <<Request("GET", self._disputes.base_url \o "/api/disputes/" \o a.dispute_id,
                     Dispute_get_headers(self._disputes.api_key), JNull, EmptyDict)>>
      [] name = "get_payment_disputes" ->
           <<Request("GET", self._disputes.base_url \o "/api/disputes",
                     Dispute_get_headers(self._disputes.api_key), JNull, EmptyDict)>>
      [] name = "add_dispute_evidence" -> <<>>
      [] name = "register_webhook" ->
           <<Request("POST", self._webhooks.base_url \o "/api/webhooks",
                     Webhook_get_headers(self._webhooks.api_key),
                     JObj([url |-> a.url, events |-> a.events]), EmptyDict)>>
      [] name \in {"get_webhook", "list_webhooks"} ->
           <<Request("GET", self._webhooks.base_url \o "/api/webhooks",
                     Webhook_get_headers(self._webhooks.api_key), JNull, EmptyDict)>>
      [] name = "delete_webhook" ->
           <<Request("DELETE", self._webhooks.base_url \o "/api/webhooks/" \o a.webhook_id,
                     Webhook_get_headers(self._webhooks.api_key), JNull, EmptyDict)>>
      [] name = "update_webhook" ->
           <<Request("PUT", self._webhooks.base_url \o "/api/webhooks/" \o a.webhook_id,
                     Webhook_get_headers(self._webhooks.api_key),
                     JObj(update_webhook_payload(a.url, a.events, a.active)), EmptyDict)>>
      [] name = "get_reputation" ->
           <<Request("GET", self.base_url \o "/api/agents/" \o a.agent_id \o "/reputation",
                     Wallet_get_headers(self.api_key), JNull, EmptyDict)>>

OutcomeOf(name, a, h) ==
    CASE name = "create_wallet" -> create_wallet(h)
      [] name = "get_wallet" -> get_wallet(a.wallet_id, h)
      [] name = "get_balance" -> get_balance(a.wallet_id, a.currency, h)
      [] name = "register_service" -> register_service(a, h)
      [] name = "search_services" -> search_services(a, h)
      [] name = "get_service" -> get_service(a.service_id, h)
      [] name = "execute" -> execute(a.service_id, a.buyer_wallet_id, a.input_data, h)
      [] name = "get_payment" -> get_payment(a.payment_id, h)
      [] name = "get_receipt" -> get_receipt(a.receipt_id, h)
      [] name = "open_dispute" -> open_dispute(a.payment_id, a.reason, a.evidence, h)
      [] name = "get_dispute" -> get_dispute(a.dispute_id, h)
      [] name = "get_payment_disputes" -> get_payment_disputes(a.payment_id, h)
      [] name = "add_dispute_evidence" -> add_evidence(a.dispute_id, a.evidence)
      [] name = "register_webhook" -> register_webhook(a.url, a.events, h)
      [] name = "get_webhook" -> get_webhook(a.webhook_id, h)
      [] name = "list_webhooks" -> list_webhooks(h)
      [] name = "delete_webhook" -> delete_webhook(a.webhook_id, h)
      [] name = "update_webhook" -> update_webhook(a.webhook_id, a.url, a.events, a.active, h)
      [] name = "get_reputation" -> get_reputation(a.agent_id, h)

(***************************************************************************)
(* Two callers on one client instance.  Each caller's call is in flight    *)
(* between two steps: Begin builds the request from the client and sends   *)
(* it, Complete is the transport's behaviour for that request reaching the *)
(* operation, which parses it and ends.  Steps of the two callers          *)
(* interleave in any order.  No operation takes a lock or writes to the    *)
(* client, and requests.<verb> opens a session of its own for every call.  *)
(***************************************************************************)
Contexts == {"a", "b"}

NotCalling ==
    [ phase |-> "idle", op |-> "none", args |-> EmptyDict, http |-> Response(EmptyDict),
      requests |-> <<>>, outcome |-> NoOutcome ]

\* The calls the two callers make: every operation, the keyed reads with
\* each id.
ConcurrentCalls ==
    {[op |-> "create_wallet", args |-> EmptyDict], [op |-> "list_webhooks", args |-> EmptyDict]}
    \cup {[op |-> "get_wallet", args |-> [wallet_id |-> id]] : id \in Ids}
    \cup {[op |-> "get_balance", args |-> [wallet_id |-> "id1", currency |-> c]]
             : c \in {BSV, <<"X", "Y", "Z">>}}
    \cup {[op |-> "register_service", args |-> RegisterDefaults]}
    \cup {[op |-> "search_services",
            args |-> [keyword |-> JStr("nlp"), category |-> JNull, max_price |-> JNull,
                      min_rating |-> JNull, limit |-> JInt(20), offset |-> JInt(0)]]}
    \cup {[op |-> "get_service", args |-> [service_id |-> "id1"]]}
    \cup {[op |-> "execute", args |-> [service_id |-> "id1", buyer_wallet_id |-> "id2",
                                       input_data |-> JObj([text |-> JStr("Test")])]]}
    \cup {[op |-> "get_payment", args |-> [payment_id |-> id]] : id \in Ids}
    \cup {[op |-> "get_receipt", args |-> [receipt_id |-> "id1"]]}
    \cup {[op |-> "open_dispute",
            args |-> [payment_id |-> "id1", reason |-> JStr("no output"), evidence |-> JStr("log")]]}
    \cup {[op |-> "get_dispute", args |-> [dispute_id |-> "id1"]]}
    \cup {[op |-> "get_payment_disputes", args |-> [payment_id |-> "id1"]]}
    \cup {[op |-> "add_dispute_evidence", args |-> [dispute_id |-> "id1", evidence |-> JStr("log")]]}
    \cup {[op |-> "register_webhook",
            args |-> [url |-> JStr("https://example.com/webhook"),
                      events |-> JList(<<JStr("payment.completed")>>)]]}
    \cup {[op |-> "get_webhook", args |-> [webhook_id |-> id]] : id \in Ids}
    \cup {[op |-> "delete_webhook", args |-> [webhook_id |-> "id1"]]}
    \cup {[op |-> "update_webhook",
            args |-> [webhook_id |-> "id1", url |-> JNull, events |-> JNull, active |-> JBool(FALSE)]]}
    \cup {[op |-> "get_reputation", args |-> [agent_id |-> "id1"]]}

\* Bodies the server may reply with to a call's request: the resource of
\* either id, the wallet with its issued credential, an empty body.
RepliesTo(name) ==
    {EmptyDict} \cup
    CASE name \in {"create_wallet", "get_wallet", "get_balance"} ->
           {[wallet |-> JObj(WalletFull(id, JInt(1), JNull))] : id \in Ids}
           \cup {[wallet |-> JObj(With(WalletFull("id1", JInt(1), JInt(MaxAmount)),
                                        "apiKey", JStr("issued-key")))]}
      [] name \in {"register_service", "get_service"} ->
           {[service |-> JObj(ServiceFull(id, JInt(1), BSV, "nlp"))] : id \in Ids}
      [] name = "search_services" ->
           {[services |-> JList(<<JObj(ServiceBase)>>)], [services |-> JList(<<>>)]}
      [] name = "execute" -> {ExecFull("success"), [error |-> JStr("Insufficient funds")]}
      [] name = "get_payment" -> {[payment |-> JObj(PaymentFull(id))] : id \in Ids}
      [] name = "get_receipt" -> {[receipt |-> JObj(ReceiptFull(id))] : id \in Ids}
      [] name \in {"open_dispute", "get_dispute"} ->
           {[dispute |-> JObj(DisputeFull(id, "id1"))] : id \in Ids}
      [] name = "get_payment_disputes" ->
           {[disputes |-> JList(<<JObj(DisputeFull("id1", "id1")), JObj(DisputeFull("id2", "id2"))>>)]}
      [] name \in {"register_webhook", "update_webhook"} ->
           {[webhook |-> JObj(WebhookFull(id))] : id \in Ids}
      [] name \in {"get_webhook", "list_webhooks"} ->
           {[webhooks |-> JList(<<JObj(WebhookFull("id1"))>>)],
            [webhooks |-> JList(<<JObj(WebhookFull("id2")), JObj(WebhookFull("id1"))>>)]}
      [] name = "delete_webhook" -> {[ok |-> JBool(TRUE)]}
      [] name = "get_reputation" -> {[reputation |-> JObj(ReputationFull(id))] : id \in Ids}
      [] name = "add_dispute_evidence" -> {}

\* The transport's behaviours for the request of a call; a call that issues
\* no request meets none but the idle one.
ConcurrentTransport(name) ==
    IF name = "add_dispute_evidence" THEN {Response(EmptyDict)}
    ELSE {Response(d) : d \in RepliesTo(name)}
         \cup {h \in TransportFailures : h.raised = "ConnectionError" \/ h.status = 500}

Begin(c) ==
    /\ contexts[c].phase = "idle"
    /\ \E call \in ConcurrentCalls :
         contexts' = [contexts EXCEPT ![c] =
                         [ phase |-> "sent", op |-> call.op, args |-> call.args,
                           http |-> Response(EmptyDict),
                           requests |-> RequestsOf(call.op, call.args, Self),
                           outcome |-> NoOutcome ]]
    /\ UNCHANGED <<client, phase, op, args, http, requests, outcome, previous, server>>

\* Mutant: a successful create_wallet stores the credential issued with the
\* wallet on the client and on its groups.
Complete_StoresApiKey(c) ==
    /\ contexts[c].phase = "sent"
    /\ \E h \in ConcurrentTransport(contexts[c].op) :
         LET result == OutcomeOf(contexts[c].op, contexts[c].args, h)
             issued == IF contexts[c].op = "create_wallet" /\ result.kind = "return"
                          /\ "apiKey" \in DOMAIN h.data.wallet.o
                       THEN h.data.wallet.o.apiKey ELSE api_key
         IN /\ contexts' = [contexts EXCEPT ![c].phase = "done", ![c].http = h,
                                             ![c].outcome = result]
            /\ api_key' = issued
            /\ _wallet' = [base_url |-> base_url, api_key |-> issued]
            /\ _services' = [base_url |-> base_url, api_key |-> issued]
            /\ _payments' = [base_url |-> base_url, api_key |-> issued]
            /\ _disputes' = [base_url |-> base_url, api_key |-> issued]
            /\ _webhooks' = [base_url |-> base_url, api_key |-> issued]
    /\ UNCHANGED <<constructor, base_url, phase, op, args, http, requests, outcome, previous, server>>

Complete(c) ==
    /\ contexts[c].phase = "sent"
    /\ \E h \in ConcurrentTransport(contexts[c].op) :
         contexts' = [contexts EXCEPT ![c].phase = "done", ![c].http = h,
                                      ![c].outcome = OutcomeOf(contexts[c].op, contexts[c].args, h)]
    /\ UNCHANGED <<client, phase, op, args, http, requests, outcome, previous, server>>

\* The caller has its result (or its exception) and may call again.
Resume(c) ==
    /\ contexts[c].phase = "done"
    /\ contexts' = [contexts EXCEPT ![c] = NotCalling]
    /\ UNCHANGED <<client, phase, op, args, http, requests, outcome, previous, server>>

(***************************************************************************)
(* A server that stores what it receives, and a caller that registers a    *)
(* service and fetches it by the id of the record it got.  The server      *)
(* keeps the body of POST /api/services as the service, adding the id, the *)
(* active flag and the two timestamps, and replies with the service it     *)
(* keeps; GET /api/services/{id} replies with the kept service of that id. *)
(***************************************************************************)
NoServices == [services |-> <<>>, step |-> "idle", registered |-> NoOutcome, fetched |-> NoOutcome]

\* POST /api/services: the service kept for a received body.
Stored(body, n) ==
    With(With(With(With(body, "id", JStr("id" \o ToString(n))), "active", JBool(TRUE)),
              "createdAt", JStr("2026-02-14T12:00:00Z")), "updatedAt", JStr("2026-02-14T12:00:00Z"))

\* GET /api/services/{id}: the reply for the request's URL.
Fetch(services, request) ==
    LET found == {i \in DOMAIN services :
                     request.url = _services.base_url \o "/api/services/" \o services[i].id.s}
    IN IF request.method = "GET" /\ found # {}
       THEN Response([service |-> JObj(services[CHOOSE i \in found : TRUE])])
       ELSE CHOOSE h \in TransportFailures : h.status = 404

RoundTripRegister ==
    /\ server.step = "idle"
    /\ Len(server.services) < NumIds
    /\ \E a \in RegisterArgs :
         LET request == RequestsOf("register_service", a, Self)[1]
             kept == Stored(request.json.o, Len(server.services) + 1)
         IN server' = [ services |-> Append(server.services, kept), step |-> "registered",
                        registered |-> register_service(a, Response([service |-> JObj(kept)])),
                        fetched |-> NoOutcome ]
    /\ UNCHANGED <<client, phase, op, args, http, requests, outcome, previous, contexts>>

RoundTripGet ==
    /\ server.step = "registered"
    /\ server.registered.kind = "return"
    /\ LET service_id == server.registered.value.id.s
           request == RequestsOf("get_service", [service_id |-> service_id], Self)[1]
       IN server' = [server EXCEPT !.step = "fetched",
                                   !.fetched = get_service(service_id, Fetch(server.services, request))]
    /\ UNCHANGED <<client, phase, op, args, http, requests, outcome, previous, contexts>>

\* The caller goes on to its next registration; the server keeps its services.
RoundTripEnd ==
    /\ server.step = "fetched"
    /\ server' = [server EXCEPT !.step = "idle", !.registered = NoOutcome, !.fetched = NoOutcome]
    /\ UNCHANGED <<client, phase, op, args, http, requests, outcome, previous, contexts>>

(***************************************************************************)
(* The call returns to its caller; the client keeps nothing of it.  The    *)
(* caller either moves on to any call (Finish) or makes the identical call *)
(* once more (FinishAndRepeat); previous is the call being repeated.       *)
(***************************************************************************)
Idle ==
    /\ phase = "idle"
    /\ op = "none"
    /\ args = EmptyDict
    /\ http = Response(EmptyDict)
    /\ requests = <<>>
    /\ outcome = NoOutcome

Finish ==
    /\ phase = "done"
    /\ phase' = "idle"
    /\ op' = "none"
    /\ args' = EmptyDict
    /\ http' = Response(EmptyDict)
    /\ requests' = <<>>
    /\ outcome' = NoOutcome
    /\ previous' = NoCall
    /\ UNCHANGED <<client, contexts, server>>

FinishAndRepeat ==
    /\ phase = "done"
    /\ phase' = "idle"
    /\ op' = "none"
    /\ args' = EmptyDict
    /\ http' = Response(EmptyDict)
    /\ requests' = <<>>
    /\ outcome' = NoOutcome
    /\ previous' = [op |-> op, args |-> args]
    /\ UNCHANGED <<client, contexts, server>>

\* WalletOperations(base_url, api_key) and the other four groups: each
\* keeps the two values it is given.
Operations(url, key) == [base_url |-> url, api_key |-> key]

\* AgentPayClient(base_url, api_key)
__init__(url, key) ==
    /\ constructor = [base_url |-> url, api_key |-> key]
    /\ base_url = Text(rstrip(url))
    /\ api_key = key
    /\ _wallet = Operations(base_url, api_key)
    /\ _services = Operations(base_url, api_key)
    /\ _payments = Operations(base_url, api_key)
    /\ _disputes = Operations(base_url, api_key)
    /\ _webhooks = Operations(base_url, api_key)

Init ==
    /\ \E url \in BaseUrls, key \in ApiKeys : __init__(url, key)
    /\ previous = NoCall
    /\ Idle
    /\ contexts = [c \in Contexts |-> NotCalling]
    /\ server = NoServices

Next ==
    \/ CreateWallet
    \/ GetWallet
    \/ GetBalance
    \/ RegisterService
    \/ SearchServices
    \/ GetService
    \/ Execute
    \/ GetPayment
    \/ GetReceipt
    \/ OpenDispute
    \/ GetDispute
    \/ GetPaymentDisputes
    \/ AddEvidence
    \/ RegisterWebhook
    \/ GetWebhook
    \/ ListWebhooks
    \/ DeleteWebhook
    \/ UpdateWebhook
    \/ GetReputation
    \/ Finish
    \/ FinishAndRepeat

Spec == Init /\ [][Next]_vars

\* Two callers at once, each call in two steps.
NextConcurrent ==
    \E c \in Contexts :
        \/ Begin(c)
        \/ Complete(c)
        \/ Resume(c)

SpecConcurrent == Init /\ [][NextConcurrent]_vars

\* Register, then fetch, against the storing server.
NextStoring ==
    \/ RoundTripRegister
    \/ RoundTripGet
    \/ RoundTripEnd

SpecStoring == Init /\ [][NextStoring]_vars

(***************************************************************************)
(* Properties.                                                             *)
(***************************************************************************)
Done == phase = "done"

\* The call's request got a reply (no exception from the transport, 2xx).
Replied == Done /\ ~Failed(http)

\* The error type each operation group documents for its failures.
GroupError ==
    [ create_wallet |-> "WalletError", get_wallet |-> "WalletError", get_balance |-> "WalletError",
      register_service |-> "ServiceError", search_services |-> "ServiceError",
      get_service |-> "ServiceError", execute |-> "ExecutionError",
      get_payment |-> "PaymentError", get_receipt |-> "PaymentError",
      open_dispute |-> "DisputeError", get_dispute |-> "DisputeError",
      get_payment_disputes |-> "DisputeError", register_webhook |-> "WebhookError",
      get_webhook |-> "WebhookError", list_webhooks |-> "WebhookError",
      delete_webhook |-> "WebhookError", update_webhook |-> "WebhookError" ]

\* The top-level key of the reply each single-resource operation reads, and
\* the mandatory keys of the object under it.
ResourceOf ==
    [ create_wallet |-> [key |-> "wallet", keys |-> WalletKeys],
      get_wallet |-> [key |-> "wallet", keys |-> WalletKeys],
      get_balance |-> [key |-> "wallet", keys |-> WalletKeys],
      register_service |-> [key |-> "service", keys |-> ServiceKeys],
      get_service |-> [key |-> "service", keys |-> ServiceKeys],
      get_payment |-> [key |-> "payment", keys |-> PaymentKeys],
      get_receipt |-> [key |-> "receipt", keys |-> ReceiptKeys],
      open_dispute |-> [key |-> "dispute", keys |-> DisputeKeys],
      get_dispute |-> [key |-> "dispute", keys |-> DisputeKeys],
      register_webhook |-> [key |-> "webhook", keys |-> WebhookKeys],
      update_webhook |-> [key |-> "webhook", keys |-> WebhookKeys],
      get_reputation |-> [key |-> "reputation", keys |-> ReputationKeys] ]

\* The reply holds a non-empty object under the key.
EmbedsObject(data, key) ==
    key \in DOMAIN data /\ data[key].t = "obj" /\ DOMAIN data[key].o # {}

\* The reply holds nothing under the key (absent or null), or an object with
\* every mandatory key.
AbsentOrComplete(data, key, keys) ==
    \/ key \notin DOMAIN data
    \/ data[key] = JNull
    \/ data[key].t = "obj" /\ FirstMissing(data[key].o, keys) = ""

\* A currency code equals an upper-case word up to letter case.
EqualsIgnoringCase(c, w) ==
    /\ Len(c) = Len(w)
    /\ \A i \in 1..Len(w) : c[i] = w[i] \/ (c[i] \in DOMAIN UpperOf /\ UpperOf[c[i]] = w[i])

\* C1: when the request of a wallet, service, execute, payment/receipt,
\* dispute or webhook operation fails at transport level (connection failure,
\* timeout, non-2xx status), the call raises its group's error, the message
\* of that error contains the cause's message, and the raw transport
\* exception does not reach the caller.
C1_TransportFailureWrapped ==
    (Done /\ op \in DOMAIN GroupError /\ http \in TransportFailures) =>
        /\ outcome.kind = "raise"
        /\ outcome.exc = GroupError[op]
        /\ ~IsInstance(outcome.exc, "RequestException")
        /\ \E i \in DOMAIN outcome.msg : outcome.msg[i] = http.cause

C1_Witness ==
    /\ Done
    /\ op = "execute"
    /\ http.raised = "ConnectionError"
    /\ outcome = Raise("ExecutionError", <<"Service execution failed: ", "Connection refused">>)

\* C2: when the HTTP POST raises a plain Exception, create_wallet raises
\* WalletError and register_service raises ServiceError.
C2_AnyExceptionWrapped ==
    (Done /\ op \in {"create_wallet", "register_service"} /\ http.raised = "Exception") =>
        /\ outcome.kind = "raise"
        /\ outcome.exc = GroupError[op]

\* C3: for the ten single-resource operations, when the request succeeds but
\* the reply lacks the operation's top-level key, the call raises the error
\* type it raises on a transport failure and returns no record.
C3_MissingTopLevelKeyRaisesGroupError ==
    (Replied /\ op \in DOMAIN ResourceOf \ {"get_balance", "get_reputation"}
             /\ ResourceOf[op].key \notin DOMAIN http.data) =>
        /\ outcome.kind = "raise"
        /\ outcome.exc = GroupError[op]

C3_Witness ==
    /\ Replied
    /\ op = "update_webhook"
    /\ "webhook" \notin DOMAIN http.data
    /\ outcome = Raise("WebhookError", <<"Invalid response: missing webhook data">>)

\* C4: when the resource object of a successful reply is present but lacks
\* one of its mandatory keys, the call ends with an error of the
\* AgentPayError hierarchy.
C4_MissingMandatoryKeyIsDomainError ==
    (Replied /\ op \in DOMAIN ResourceOf
             /\ EmbedsObject(http.data, ResourceOf[op].key)
             /\ FirstMissing(http.data[ResourceOf[op].key].o, ResourceOf[op].keys) # "") =>
        /\ outcome.kind = "raise"
        /\ IsInstance(outcome.exc, "AgentPayError")

WalletFields ==
    << <<"id", "id">>, <<"publicKey", "public_key">>, <<"address", "address">>,
       <<"createdAt", "created_at">> >>
ServiceFields ==
    << <<"id", "id">>, <<"agentId", "agent_id">>, <<"name", "name">>,
       <<"description", "description">>, <<"category", "category">>, <<"price", "price">>,
       <<"currency", "currency">>, <<"endpoint", "endpoint">>, <<"method", "method">>,
       <<"active", "active">>, <<"createdAt", "created_at">>, <<"updatedAt", "updated_at">> >>
PaymentFields ==
    << <<"id", "id">>, <<"serviceId", "service_id">>, <<"buyerWalletId", "buyer_wallet_id">>,
       <<"sellerWalletId", "seller_wallet_id">>, <<"amount", "amount">>,
       <<"platformFee", "platform_fee">>, <<"currency", "currency">>, <<"status", "status">>,
       <<"createdAt", "created_at">> >>
ReceiptFields ==
    << <<"id", "id">>, <<"paymentId", "payment_id">>, <<"serviceId", "service_id">>,
       <<"inputHash", "input_hash">>, <<"outputHash", "output_hash">>,
       <<"timestamp", "timestamp">>, <<"executionTimeMs", "execution_time_ms">>,
       <<"providerSignature", "provider_signature">>,
       <<"platformSignature", "platform_signature">>, <<"receiptHash", "receipt_hash">> >>
DisputeFields ==
    << <<"id", "id">>, <<"paymentId", "payment_id">>, <<"buyerWalletId", "buyer_wallet_id">>,
       <<"providerWalletId", "provider_wallet_id">>, <<"reason", "reason">>,
       <<"status", "status">>, <<"createdAt", "created_at">> >>
WebhookFields ==
    << <<"id", "id">>, <<"url", "url">>, <<"events", "events">>, <<"active", "active">>,
       <<"createdAt", "created_at">> >>
ReputationFields ==
    << <<"agentId", "agent_id">>, <<"totalJobs", "total_jobs">>,
       <<"successRate", "success_rate">>, <<"avgResponseTimeMs", "avg_response_time_ms">>,
       <<"totalEarned", "total_earned">>, <<"totalSpent", "total_spent">>,
       <<"rating", "rating">> >>

FieldsOf ==
    [ create_wallet |-> WalletFields, get_wallet |-> WalletFields,
      register_service |-> ServiceFields, get_service |-> ServiceFields,
      get_payment |-> PaymentFields, get_receipt |-> ReceiptFields,
      open_dispute |-> DisputeFields, get_dispute |-> DisputeFields,
      register_webhook |-> WebhookFields, update_webhook |-> WebhookFields,
      get_reputation |-> ReputationFields ]

\* Every listed attribute of the record is the reply's value under its key.
Copied(rec, data, fields) ==
    \A i \in DOMAIN fields :
        fields[i][1] \in DOMAIN data /\ rec[fields[i][2]] = data[fields[i][1]]

\* The attribute is the reply's value when the reply has the key, and the
\* default otherwise.
CopiedOr(rec, data, key, attr, default) ==
    rec[attr] = IF key \in DOMAIN data THEN data[key] ELSE default

C6_ExecuteWithoutPaymentIdFails ==
    (Replied /\ op = "execute" /\ "paymentId" \notin DOMAIN http.data) =>
        /\ outcome.kind = "raise"
        /\ outcome.exc = "KeyError"

C6_Witness ==
    /\ Replied
    /\ op = "execute"
    /\ "paymentId" \notin DOMAIN http.data
    /\ EmbedsObject(http.data, "receipt")
    /\ EmbedsObject(http.data, "payment")
    /\ outcome = Raise("KeyError", <<"paymentId">>)

\* C7: in execute the embedded receipt and the embedded payment are handled
\* independently: for a reply with paymentId, whichever of the two it
\* embeds, the call returns a result whose receipt (resp. payment) is the
\* parsed embedded object when the reply embeds one and is empty otherwise.
C7_ReceiptAndPaymentIndependent ==
    (Replied /\ op = "execute" /\ "paymentId" \in DOMAIN http.data
             /\ AbsentOrComplete(http.data, "receipt", ReceiptKeys)
             /\ AbsentOrComplete(http.data, "payment", PaymentKeys)) =>
        /\ outcome.kind = "return"
        /\ IF EmbedsObject(http.data, "receipt")
           THEN /\ outcome.value.receipt # JNull
                /\ Copied(outcome.value.receipt, http.data["receipt"].o, ReceiptFields)
           ELSE outcome.value.receipt = JNull
        /\ IF EmbedsObject(http.data, "payment")
           THEN /\ outcome.value.payment # JNull
                /\ Copied(outcome.value.payment, http.data["payment"].o, PaymentFields)
           ELSE outcome.value.payment = JNull

C7_Witness ==
    /\ Replied
    /\ op = "execute"
    /\ "paymentId" \in DOMAIN http.data
    /\ "receipt" \notin DOMAIN http.data
    /\ EmbedsObject(http.data, "payment")
    /\ outcome.kind = "return"
    /\ outcome.value.receipt = JNull
    /\ outcome.value.payment # JNull

\* C8: every ExecutionResult returned by execute has a status that is
\* either success or error.
C8_StatusIsSuccessOrError ==
    (Done /\ op = "execute" /\ outcome.kind = "return") =>
        outcome.value.status \in {JStr(st) : st \in ExecutionStatus}

\* C9: for a wallet that can be fetched, get_balance returns the wallet's
\* BSV balance when the currency is BSV in any letter case and its MNEE
\* balance when the currency is MNEE in any letter case, and zero when the
\* reply does not carry the selected balance.
C9_BalanceOfCurrency ==
    (Replied /\ op = "get_balance"
             /\ EmbedsObject(http.data, "wallet")
             /\ FirstMissing(http.data["wallet"].o, WalletKeys) = "") =>
        LET data == http.data["wallet"].o
            balanceOf(key) == IF key \in DOMAIN data /\ data[key].t = "int"
                              THEN data[key] ELSE JInt(0)
        IN /\ EqualsIgnoringCase(args.currency, BSV) => outcome = Return(balanceOf("balance"))
           /\ EqualsIgnoringCase(args.currency, MNEE) => outcome = Return(balanceOf("balanceMnee"))

C9_Witness ==
    /\ Replied
    /\ op = "get_balance"
    /\ args.currency = <<"m", "N", "e", "E">>
    /\ EmbedsObject(http.data, "wallet")
    /\ Get(http.data["wallet"].o, "balance") = JInt(0)
    /\ Get(http.data["wallet"].o, "balanceMnee") = JInt(MaxAmount)
    /\ outcome = Return(JInt(MaxAmount))

\* C10: get_balance raises WalletError for every currency code that is not
\* BSV or MNEE up to letter case, whatever the wallet id and whatever the
\* server replies (a reply of any content, or a transport failure).
C10_InvalidCurrencyRaisesWalletError ==
    (Done /\ op = "get_balance" /\ http \notin InjectedFailures
          /\ ~EqualsIgnoringCase(args.currency, BSV)
          /\ ~EqualsIgnoringCase(args.currency, MNEE)) =>
        /\ outcome.kind = "raise"
        /\ outcome.exc = "WalletError"

\* The list the reply holds under the key; the empty list when the key is absent.
CollectionOf(data, key) == IF key \in DOMAIN data THEN data[key].l ELSE <<>>

\* The k-th smallest element of a set of positions.
Nth(S, k) == CHOOSE i \in S : Cardinality({j \in S : j <= i}) = k

\* The positions of the collection's disputes that carry the payment id.
DisputesOf(l, payment_id) ==
    {i \in DOMAIN l : "paymentId" \in DOMAIN l[i].o /\ l[i].o["paymentId"] = JStr(payment_id)}

\* C11: get_payment_disputes issues one GET /api/disputes without any
\* payment filter, and from a reply whose collection is a list (or absent)
\* of disputes it returns exactly the disputes whose payment id is the
\* requested one, in collection order; an empty or absent collection gives
\* the empty list.
C11_PaymentDisputesFiltered ==
    (Done /\ op = "get_payment_disputes") =>
        /\ Len(requests) = 1
        /\ requests[1].method = "GET"
        /\ requests[1].url = base_url \o "/api/disputes"
        /\ requests[1].params = EmptyDict
        /\ requests[1].json = JNull
        /\ (/\ ~Failed(http)
            /\ "disputes" \in DOMAIN http.data => http.data["disputes"].t = "list"
            /\ \A i \in DisputesOf(CollectionOf(http.data, "disputes"), args.payment_id) :
                   FirstMissing(CollectionOf(http.data, "disputes")[i].o, DisputeKeys) = "")
           => LET l == CollectionOf(http.data, "disputes")
                  S == DisputesOf(l, args.payment_id)
              IN /\ outcome.kind = "return"
                 /\ outcome.value.t = "list"
                 /\ Len(outcome.value.l) = Cardinality(S)
                 /\ \A k \in 1..Cardinality(S) :
                        Copied(outcome.value.l[k], l[Nth(S, k)].o, DisputeFields)

C11_Witness ==
    /\ Replied
    /\ op = "get_payment_disputes"
    /\ args.payment_id = "id1"
    /\ "disputes" \in DOMAIN http.data
    /\ http.data["disputes"] = JList(<<JObj(DisputeFull("id2", "id2")), JObj(DisputeFull("id2", "id1"))>>)
    /\ outcome.kind = "return"
    /\ Len(outcome.value.l) = 1
    /\ outcome.value.l[1].id = JStr("id2")
    /\ outcome.value.l[1].payment_id = JStr("id1")

\* Two disputes of the requested payment come back in collection order.
C11_WitnessOrder ==
    /\ Replied
    /\ op = "get_payment_disputes"
    /\ "disputes" \in DOMAIN http.data
    /\ http.data["disputes"] = JList(<<JObj(DisputeFull("id2", "id1")), JObj(DisputeFull("id1", "id1"))>>)
    /\ outcome.kind = "return"
    /\ Len(outcome.value.l) = 2
    /\ outcome.value.l[1].id = JStr("id2")

\* C12: add_dispute_evidence raises DisputeError for every dispute id and
\* every evidence, whatever the client's configuration and whatever calls
\* came before; it returns nothing and issues no HTTP request.
C12_AddEvidenceAlwaysRaises ==
    (Done /\ op = "add_dispute_evidence") =>
        /\ outcome.kind = "raise"
        /\ outcome.exc = "DisputeError"
        /\ requests = <<>>

C12_Witness ==
    /\ Done
    /\ op = "add_dispute_evidence"
    /\ args = [dispute_id |-> "id2", evidence |-> JStr("")]
    /\ previous = [op |-> op, args |-> args]
    /\ Truthy(api_key)
    /\ outcome.kind = "raise"
    /\ outcome.exc = "DisputeError"
    /\ requests = <<>>

\* The reply lists webhooks: the key is absent, or holds a list whose
\* entries all have the mandatory keys of a webhook.
ListsWebhooks(data) ==
    "webhooks" \in DOMAIN data =>
        /\ data["webhooks"].t = "list"
        /\ \A i \in DOMAIN data["webhooks"].l :
               FirstMissing(data["webhooks"].l[i].o, WebhookKeys) = ""

\* The positions of the listed webhooks that carry the id.
WebhooksWithId(l, webhook_id) ==
    {i \in DOMAIN l : l[i].o["id"] = JStr(webhook_id)}

\* C13: get_webhook issues one GET on the collection endpoint /api/webhooks
\* and no request on a single-resource path; when the listed collection
\* contains a webhook with the requested id the call returns that webhook,
\* and when it contains none the call raises WebhookError.
C13_GetWebhookScansCollection ==
    (Done /\ op = "get_webhook") =>
        /\ Len(requests) = 1
        /\ requests[1].method = "GET"
        /\ requests[1].url = base_url \o "/api/webhooks"
        /\ (~Failed(http) /\ ListsWebhooks(http.data)) =>
              LET l == CollectionOf(http.data, "webhooks")
                  S == WebhooksWithId(l, args.webhook_id)
              IN IF S # {}
                 THEN /\ outcome.kind = "return"
                      /\ outcome.value.id = JStr(args.webhook_id)
                      /\ \E i \in S : /\ Copied(outcome.value, l[i].o, WebhookFields)
                                       /\ outcome.value.secret = Get(l[i].o, "secret")
                 ELSE /\ outcome.kind = "raise"
                      /\ outcome.exc = "WebhookError"

C13_Witness ==
    /\ Replied
    /\ op = "get_webhook"
    /\ args.webhook_id = "id2"
    /\ "webhooks" \in DOMAIN http.data
    /\ http.data["webhooks"] = JList(<<JObj(WebhookFull("id1")), JObj(WebhookFull("id2"))>>)
    /\ outcome.kind = "return"
    /\ outcome.value.id = JStr("id2")

\* The collection holds no webhook with the requested id.
C13_WitnessNotFound ==
    /\ Replied
    /\ op = "get_webhook"
    /\ args.webhook_id = "id2"
    /\ "webhooks" \in DOMAIN http.data
    /\ http.data["webhooks"] = JList(<<JObj(WebhookFull("id1"))>>)
    /\ outcome = Raise("WebhookError", <<"Webhook ", "id2", " not found">>)

\* C14: delete_webhook issues one DELETE /api/webhooks/{id}; when the HTTP
\* outcome is not an error it returns true whatever the reply body, when
\* the HTTP outcome is an error (connection failure, timeout, non-2xx
\* status) it raises WebhookError; it never returns false.
C14_DeleteWebhookTrueOrError ==
    (Done /\ op = "delete_webhook") =>
        /\ Len(requests) = 1
        /\ requests[1].method = "DELETE"
        /\ requests[1].url = base_url \o "/api/webhooks/" \o args.webhook_id
        /\ outcome # Return(JBool(FALSE))
        /\ ~Failed(http) => outcome = Return(JBool(TRUE))
        /\ http \in TransportFailures =>
              outcome.kind = "raise" /\ outcome.exc = "WebhookError"

C14_Witness ==
    /\ Replied
    /\ op = "delete_webhook"
    /\ http.data = EmptyDict
    /\ outcome = Return(JBool(TRUE))

\* The server answers the DELETE with an error status.
C14_WitnessError ==
    /\ Done
    /\ op = "delete_webhook"
    /\ http.status = 404
    /\ outcome = Raise("WebhookError", <<"Failed to delete webhook: ", "404 Client Error">>)

\* C15: update_webhook sends one PUT /api/webhooks/{id} whose JSON body
\* holds exactly the fields among url, events and active that the caller
\* provided, each with the provided value: a provided active=false, empty
\* url and empty events list are sent, and with none provided the body is
\* the empty object.
C15_UpdateSendsProvidedFields ==
    (Done /\ op = "update_webhook") =>
        /\ Len(requests) = 1
        /\ requests[1].method = "PUT"
        /\ requests[1].url = base_url \o "/api/webhooks/" \o args.webhook_id
        /\ requests[1].json.t = "obj"
        /\ DOMAIN requests[1].json.o = {k \in {"url", "events", "active"} : args[k] # JNull}
        /\ \A k \in DOMAIN requests[1].json.o : requests[1].json.o[k] = args[k]

C15_Witness ==
    /\ Done
    /\ op = "update_webhook"
    /\ args.url = JStr("")
    /\ args.events = JList(<<>>)
    /\ args.active = JBool(FALSE)
    /\ requests[1].json = JObj([url |-> JStr(""), events |-> JList(<<>>), active |-> JBool(FALSE)])

\* Nothing is provided: the body is the empty object.
C15_WitnessNone ==
    /\ Done
    /\ op = "update_webhook"
    /\ args.url = JNull /\ args.events = JNull /\ args.active = JNull
    /\ requests[1].json = JObj(EmptyDict)

\* The string is the upper-case form of the given one: the same letters,
\* none of them lower-case.
IsUpperOf(u, c) ==
    /\ EqualsIgnoringCase(c, u)
    /\ \A i \in DOMAIN u : u[i] \notin DOMAIN UpperOf

\* C16: register_service sends the currency and the method in upper case
\* whatever their input case, and its body holds inputSchema (resp.
\* outputSchema) exactly when the caller provided an input (resp. output)
\* schema object, an empty object included.
C16_RegisterSendsUpperAndProvidedSchemas ==
    (Done /\ op = "register_service") =>
        /\ Len(requests) = 1
        /\ requests[1].method = "POST"
        /\ IsUpperOf(requests[1].json.o["currency"].cs, args.currency.cs)
        /\ IsUpperOf(requests[1].json.o["method"].cs, args.method.cs)
        /\ "inputSchema" \in DOMAIN requests[1].json.o <=> args.input_schema # JNull
        /\ "outputSchema" \in DOMAIN requests[1].json.o <=> args.output_schema # JNull
        /\ args.input_schema # JNull => requests[1].json.o["inputSchema"] = args.input_schema
        /\ args.output_schema # JNull => requests[1].json.o["outputSchema"] = args.output_schema

\* The part of C16 about letter case alone.
C16_UpperCaseSent ==
    (Done /\ op = "register_service") =>
        /\ IsUpperOf(requests[1].json.o["currency"].cs, args.currency.cs)
        /\ IsUpperOf(requests[1].json.o["method"].cs, args.method.cs)

\* The wire name of each filter of search_services.
WireName ==
    [ keyword |-> "q", category |-> "category", max_price |-> "maxPrice",
      min_rating |-> "minRating", limit |-> "limit", offset |-> "offset" ]

\* The filter has a value to send: it is not None and not the empty string.
\* limit always has one (the caller's, or the default 20); an offset of 0,
\* the default, counts as not given.
Given(a, f) ==
    IF f = "offset" THEN a[f] # JInt(0)
    ELSE a[f] # JNull /\ a[f] # JStr("")

\* The text a value has in the query string.
QueryText(v) == IF v.t = "int" THEN ToString(v.n) ELSE v.s

\* C17: the query string of search_services holds exactly the filters that
\* have a value, each under its wire name with that value: a filter not
\* given is not sent, a given one is sent (max_price 0 as maxPrice=0), and
\* the call without arguments sends limit=20 and none of q, category,
\* maxPrice, minRating.
C17_SearchSendsGivenFilters ==
    (Done /\ op = "search_services") =>
        /\ Len(requests) = 1
        /\ requests[1].method = "GET"
        /\ requests[1].url = base_url \o "/api/services"
        /\ DOMAIN requests[1].params = {WireName[f] : f \in {g \in DOMAIN WireName : Given(args, g)}}
        /\ \A f \in DOMAIN WireName :
               Given(args, f) => requests[1].params[WireName[f]] = QueryText(args[f])

\* C17 holds for every call whose limit is not 0.
C17_ExceptLimitZero ==
    (Done /\ op = "search_services" /\ args.limit # JInt(0)) =>
        /\ DOMAIN requests[1].params = {WireName[f] : f \in {g \in DOMAIN WireName : Given(args, g)}}
        /\ \A f \in DOMAIN WireName :
               Given(args, f) => requests[1].params[WireName[f]] = QueryText(args[f])

\* The key, the mandatory keys and the fields of the entries each listing
\* operation reads.
ListingOf ==
    [ search_services |-> [key |-> "services", keys |-> ServiceKeys, fields |-> ServiceFields],
      list_webhooks |-> [key |-> "webhooks", keys |-> WebhookKeys, fields |-> WebhookFields] ]

\* The reply lacks the key, or holds under it a list whose entries all have
\* the mandatory keys.
HoldsList(data, key, keys) ==
    key \in DOMAIN data =>
        /\ data[key].t = "list"
        /\ \A i \in DOMAIN data[key].l : FirstMissing(data[key].l[i].o, keys) = ""

\* C18: from a successful reply that holds an empty list or lacks the key,
\* search_services and list_webhooks return the empty sequence and raise
\* nothing; from a reply that holds a list they return one record per
\* entry, in reply order.
C18_ListingsReturnOnePerEntry ==
    (Replied /\ op \in DOMAIN ListingOf
             /\ HoldsList(http.data, ListingOf[op].key, ListingOf[op].keys)) =>
        LET l == CollectionOf(http.data, ListingOf[op].key)
        IN /\ outcome.kind = "return"
           /\ outcome.value.t = "list"
           /\ Len(outcome.value.l) = Len(l)
           /\ \A i \in DOMAIN l : Copied(outcome.value.l[i], l[i].o, ListingOf[op].fields)

C18_Witness ==
    /\ Replied
    /\ op = "list_webhooks"
    /\ "webhooks" \in DOMAIN http.data
    /\ http.data["webhooks"] = JList(<<JObj(WebhookFull("id2")), JObj(WebhookFull("id1"))>>)
    /\ outcome.kind = "return"
    /\ Len(outcome.value.l) = 2
    /\ outcome.value.l[1].id = JStr("id2")
    /\ outcome.value.l[2].id = JStr("id1")

\* The reply lacks the services key: the empty sequence comes back.
C18_WitnessAbsent ==
    /\ Replied
    /\ op = "search_services"
    /\ http.data = EmptyDict
    /\ outcome = Return(JList(<<>>))

\* The reply holds an empty list: the empty sequence comes back.
C18_WitnessEmpty ==
    /\ Replied
    /\ op = "list_webhooks"
    /\ http.data = [webhooks |-> JList(<<>>)]
    /\ outcome = Return(JList(<<>>))

\* The operations of the groups whose requests also carry x-api-key.
KeyedOperations ==
    { "execute", "get_payment", "get_receipt",
      "open_dispute", "get_dispute", "get_payment_disputes",
      "register_webhook", "get_webhook", "list_webhooks", "delete_webhook", "update_webhook" }

\* C19: every request carries Content-Type: application/json.  With a
\* credential configured every request carries Authorization: Bearer
\* <credential>, and the requests of the payment/execution, dispute and
\* webhook groups carry x-api-key with the same credential; with none
\* configured neither header is sent.  No request carries x-api-key without
\* Authorization, or the two with different credentials.
C19_Headers ==
    Done =>
        \A i \in DOMAIN requests :
            LET headers == requests[i].headers
            IN /\ "Content-Type" \in DOMAIN headers
               /\ headers["Content-Type"] = "application/json"
               /\ Truthy(api_key) =>
                     /\ "Authorization" \in DOMAIN headers
                     /\ headers["Authorization"] = "Bearer " \o api_key.s
                     /\ op \in KeyedOperations =>
                           /\ "x-api-key" \in DOMAIN headers
                           /\ headers["x-api-key"] = api_key.s
               /\ ~Truthy(api_key) =>
                     /\ "Authorization" \notin DOMAIN headers
                     /\ "x-api-key" \notin DOMAIN headers
               /\ "x-api-key" \in DOMAIN headers =>
                     /\ "Authorization" \in DOMAIN headers
                     /\ headers["Authorization"] = "Bearer " \o headers["x-api-key"]

C19_Witness ==
    /\ Done
    /\ op = "execute"
    /\ api_key = JStr("test-key")
    /\ Len(requests) = 1
    /\ requests[1].headers =
          ("Content-Type" :> "application/json") @@ ("Authorization" :> "Bearer test-key")
          @@ ("x-api-key" :> "test-key")

\* No credential is configured: the request carries the content type only.
C19_WitnessNoCredential ==
    /\ Done
    /\ op = "open_dispute"
    /\ api_key = JNull
    /\ Len(requests) = 1
    /\ DOMAIN requests[1].headers = {"Content-Type"}

\* The operations that only read.
ReadOperations ==
    { "get_wallet", "get_balance", "get_service", "search_services", "get_payment",
      "get_receipt", "get_dispute", "get_payment_disputes", "list_webhooks", "get_webhook",
      "get_reputation" }

\* The call in progress repeats the call made just before it.
Repeated == previous = [op |-> op, args |-> args]

\* C20: a call issues at most one HTTP request; when that request fails no
\* other follows, and the failure reaches the caller as the call's error;
\* a call of a read operation issues exactly one request, also when the
\* identical call was made just before.
C20_SingleAttemptNoCaching ==
    Done =>
        /\ Len(requests) <= 1
        /\ (requests # <<>> /\ Failed(http)) =>
              /\ outcome.kind = "raise"
              /\ \E i \in DOMAIN outcome.msg : outcome.msg[i] = http.cause
        /\ op \in ReadOperations => Len(requests) = 1

C20_Witness ==
    /\ Done
    /\ op = "get_wallet"
    /\ Repeated
    /\ ~Failed(http)
    /\ Len(requests) = 1
    /\ requests[1].url = base_url \o "/api/wallets/" \o args.wallet_id
    /\ outcome.kind = "return"

\* A repeated call whose request fails: one request, and the error.
C20_WitnessFailure ==
    /\ Done
    /\ op = "get_balance"
    /\ Repeated
    /\ http.raised = "Timeout"
    /\ Len(requests) = 1
    /\ outcome = Raise("WalletError", <<"Failed to get wallet: ", "Read timed out">>)

\* The parts of a URL without the slashes that trail it.
WithoutTrailingSlashes(parts) ==
    LET n == CHOOSE k \in 0..Len(parts) :
                 /\ k = 0 \/ parts[k] # "/"
                 /\ \A i \in (k + 1)..Len(parts) : parts[i] = "/"
    IN SubSeq(parts, 1, n)

C21_NoOperationChangesClient == [][client' = client]_vars

C22_CreateWalletPropagatesApiKey ==
    (Replied /\ op = "create_wallet" /\ outcome.kind = "return" /\ constructor.api_key = JNull) =>
        /\ "api_key" \in DOMAIN outcome.value
        /\ Truthy(outcome.value.api_key)
        /\ api_key = outcome.value.api_key

\* What the code does instead: the wallet has no api_key attribute and the
\* client's credential stays the constructor's, even when the reply carries
\* a credential.
C22_NoApiKeyOnWallet ==
    (Replied /\ op = "create_wallet" /\ outcome.kind = "return") =>
        /\ "api_key" \notin DOMAIN outcome.value
        /\ api_key = constructor.api_key

\* The two descriptions of a call agree: what each operation's step does is
\* what RequestsOf and OutcomeOf give for the call.
CallsAsDescribed ==
    Done => /\ requests = RequestsOf(op, args, Self)
            /\ outcome = OutcomeOf(op, args, http)

\* The client as its constructor leaves it.
AsConstructed ==
    LET url == Text(WithoutTrailingSlashes(constructor.base_url))
        group == [base_url |-> url, api_key |-> constructor.api_key]
    IN [ base_url |-> url, api_key |-> constructor.api_key, _wallet |-> group, _services |-> group,
         _payments |-> group, _disputes |-> group, _webhooks |-> group ]

C25_IdIsTheReplysId ==
    (Replied /\ outcome.kind = "return") =>
        /\ op \in {"create_wallet", "register_service", "register_webhook", "open_dispute"} =>
               LET resource == http.data[ResourceOf[op].key].o
               IN "id" \in DOMAIN resource /\ outcome.value.id = resource["id"]
        /\ op = "execute" =>
               "paymentId" \in DOMAIN http.data /\ outcome.value.payment_id = http.data["paymentId"]

\* A dispute opened on payment id1 came back as the dispute id2.
C25_Witness ==
    /\ Replied
    /\ op = "open_dispute"
    /\ args.payment_id = "id1"
    /\ outcome.kind = "return"
    /\ outcome.value.id = JStr("id2")
    /\ outcome.value.payment_id = JStr("id1")

\* C26: get_reputation issues one GET to /api/agents/{agent_id}/reputation
\* under the base URL.  It returns a ReputationScore exactly when the reply
\* holds a reputation object with all seven fields, and every attribute of
\* the score is the reply's value; when the object is missing the call raises
\* AgentPayError, and when a field is missing it raises the error of the
\* failed lookup of that field: no field is defaulted.
C26_ReputationAllOrNothing ==
    (Done /\ op = "get_reputation") =>
        /\ Len(requests) = 1
        /\ requests[1].method = "GET"
        /\ requests[1].url = Text(WithoutTrailingSlashes(constructor.base_url))
                                \o "/api/agents/" \o args.agent_id \o "/reputation"
        /\ Replied =>
               LET held == EmbedsObject(http.data, "reputation")
                   missing == IF held THEN FirstMissing(http.data["reputation"].o, ReputationKeys)
                              ELSE ""
               IN /\ outcome.kind = "return" <=> (held /\ missing = "")
                  /\ outcome.kind = "return" =>
                         Copied(outcome.value, http.data["reputation"].o, ReputationFields)
                  /\ ~held => outcome.kind = "raise" /\ outcome.exc = "AgentPayError"
                  /\ (held /\ missing # "") =>
                         outcome = Raise("KeyError", <<missing>>)

\* The reply's reputation object has every field but the rating.
C26_Witness ==
    /\ Replied
    /\ op = "get_reputation"
    /\ EmbedsObject(http.data, "reputation")
    /\ DOMAIN http.data["reputation"].o = {"agentId", "totalJobs", "successRate",
                                            "avgResponseTimeMs", "totalEarned", "totalSpent"}
    /\ outcome.kind = "raise"

\* The configured base URL.
Base == Text(WithoutTrailingSlashes(constructor.base_url))

\* The surface enumerated by the wire claim, as method and path.
ListedSurface ==
    { <<"POST", "/api/wallets">>, <<"POST", "/api/services">>, <<"GET", "/api/services">>,
      <<"POST", "/api/disputes">>, <<"GET", "/api/disputes">>, <<"POST", "/api/webhooks">>,
      <<"GET", "/api/webhooks">> }
    \cup UNION { { <<"GET", "/api/wallets/" \o id>>, <<"GET", "/api/services/" \o id>>,
                   <<"POST", "/api/execute/" \o id>>, <<"GET", "/api/payments/" \o id>>,
                   <<"GET", "/api/receipts/" \o id>>, <<"GET", "/api/disputes/" \o id>>,
                   <<"PUT", "/api/webhooks/" \o id>>, <<"DELETE", "/api/webhooks/" \o id>> }
                 : id \in Ids }

\* The wire table's line for each operation that issues a request.
WireTable(name, a) ==
    CASE name = "create_wallet" -> <<"POST", "/api/wallets">>
      [] name \in {"get_wallet", "get_balance"} -> <<"GET", "/api/wallets/" \o a.wallet_id>>
      [] name = "register_service" -> <<"POST", "/api/services">>
      [] name = "search_services" -> <<"GET", "/api/services">>
      [] name = "get_service" -> <<"GET", "/api/services/" \o a.service_id>>
      [] name = "execute" -> <<"POST", "/api/execute/" \o a.service_id>>
      [] name = "get_payment" -> <<"GET", "/api/payments/" \o a.payment_id>>
      [] name = "get_receipt" -> <<"GET", "/api/receipts/" \o a.receipt_id>>
      [] name = "open_dispute" -> <<"POST", "/api/disputes">>
      [] name = "get_dispute" -> <<"GET", "/api/disputes/" \o a.dispute_id>>
      [] name = "get_payment_disputes" -> <<"GET", "/api/disputes">>
      [] name = "register_webhook" -> <<"POST", "/api/webhooks">>
      [] name \in {"get_webhook", "list_webhooks"} -> <<"GET", "/api/webhooks">>
      [] name = "update_webhook" -> <<"PUT", "/api/webhooks/" \o a.webhook_id>>
      [] name = "delete_webhook" -> <<"DELETE", "/api/webhooks/" \o a.webhook_id>>
      [] name = "get_reputation" -> <<"GET", "/api/agents/" \o a.agent_id \o "/reputation">>

\* C27: every request of every operation has a method and a path, relative
\* to the configured base URL, among: POST /api/wallets, GET
\* /api/wallets/{id}, POST /api/services, GET /api/services, GET
\* /api/services/{id}, POST /api/execute/{serviceId}, GET /api/payments/{id},
\* GET /api/receipts/{id}, POST /api/disputes, GET /api/disputes/{id}, GET
\* /api/disputes, POST /api/webhooks, GET /api/webhooks, PUT
\* /api/webhooks/{id}, DELETE /api/webhooks/{id}.
C27_NoRequestOutsideListedSurface ==
    Done =>
        \A i \in DOMAIN requests :
            \E line \in ListedSurface :
                requests[i].method = line[1] /\ requests[i].url = Base \o line[2]

\* C27 amended: an operation issues no request (add_dispute_evidence) or
\* exactly one, with the method and path of its line of the wire table
\* relative to the configured base URL, the listed lines and GET
\* /api/agents/{id}/reputation for get_reputation; the body of execute is
\* {buyerWalletId, input} and the body of register_webhook is {url, events},
\* holding the call's arguments.
C27_WireTable ==
    Done =>
        IF op = "add_dispute_evidence" THEN requests = <<>>
        ELSE /\ Len(requests) = 1
             /\ requests[1].method = WireTable(op, args)[1]
             /\ requests[1].url = Base \o WireTable(op, args)[2]
             /\ op # "get_reputation" =>
                    \E line \in ListedSurface : line = WireTable(op, args)
             /\ op = "execute" =>
                    requests[1].json = JObj([buyerWalletId |-> JStr(args.buyer_wallet_id),
                                             input |-> args.input_data])
             /\ op = "register_webhook" =>
                    requests[1].json = JObj([url |-> args.url, events |-> args.events])

\* get_reputation has sent its request to the agent's reputation path.
C27_Witness ==
    /\ Done
    /\ op = "get_reputation"
    /\ constructor.base_url = <<"https://api.agentspay.io", "/", "/">>
    /\ Len(requests) = 1
    /\ requests[1].method = "GET"
    /\ requests[1].url = "https://api.agentspay.io/api/agents/id2/reputation"

\* C28: in the wallet record that create_wallet or get_wallet returns, each
\* of the two balances is the reply's value when the reply carries it and
\* None, not zero, when the reply omits it; a reply whose wallet has the
\* mandatory keys and neither balance still yields a record.
C28_OmittedBalanceIsUnknown ==
    (Replied /\ op \in {"create_wallet", "get_wallet"}) =>
        /\ outcome.kind = "return" =>
               LET data == http.data["wallet"].o
               IN /\ outcome.value.balance =
                        IF "balance" \in DOMAIN data THEN data["balance"] ELSE JNull
                  /\ outcome.value.balance_mnee =
                        IF "balanceMnee" \in DOMAIN data THEN data["balanceMnee"] ELSE JNull
                  /\ "balance" \notin DOMAIN data => outcome.value.balance # JInt(0)
                  /\ "balanceMnee" \notin DOMAIN data => outcome.value.balance_mnee # JInt(0)
        /\ (EmbedsObject(http.data, "wallet")
               /\ DOMAIN http.data["wallet"].o = {"id", "publicKey", "address", "createdAt"}) =>
               outcome.kind = "return"

\* get_wallet returned the record of a wallet whose reply has neither balance.
C28_Witness ==
    /\ Replied
    /\ op = "get_wallet"
    /\ EmbedsObject(http.data, "wallet")
    /\ DOMAIN http.data["wallet"].o = {"id", "publicKey", "address", "createdAt"}
    /\ outcome.kind = "return"
    /\ outcome.value.balance = JNull
    /\ outcome.value.balance_mnee = JNull

\* The call ended with get_balance's invalid-currency error.
InvalidCurrencyError ==
    outcome.kind = "raise" /\ outcome.exc = "WalletError" /\ outcome.msg[1] = "Invalid currency: "

\* C29: get_balance issues GET /api/wallets/{id} whatever the currency code.
\* With a code outside BSV and MNEE, when the fetch fails at transport level
\* or finds no wallet the caller gets the WalletError of the fetch, not the
\* invalid-currency error; the invalid-currency error is raised only when
\* the wallet was fetched.
C29_CurrencyValidatedAfterFetch ==
    (Done /\ op = "get_balance") =>
        /\ Len(requests) = 1
        /\ requests[1].method = "GET"
        /\ requests[1].url = Base \o "/api/wallets/" \o args.wallet_id
        /\ (http \in TransportFailures \/ (Replied /\ ~Truthy(Get(http.data, "wallet")))) =>
               /\ outcome = get_wallet(args.wallet_id, http)
               /\ outcome.kind = "raise"
               /\ outcome.exc = "WalletError"
               /\ ~InvalidCurrencyError
        /\ InvalidCurrencyError =>
               /\ Replied
               /\ get_wallet(args.wallet_id, http).kind = "return"
               /\ ~EqualsIgnoringCase(args.currency, BSV)
               /\ ~EqualsIgnoringCase(args.currency, MNEE)

\* The balance was asked in an unknown currency and the server was not
\* reachable: the request was issued and the error is the fetch's.
C29_Witness ==
    /\ Done
    /\ op = "get_balance"
    /\ ~EqualsIgnoringCase(args.currency, BSV)
    /\ ~EqualsIgnoringCase(args.currency, MNEE)
    /\ http.raised = "ConnectionError"
    /\ Len(requests) = 1
    /\ outcome.exc = "WalletError"
    /\ outcome.msg[1] = "Failed to get wallet: "

\* The invalid-currency error, after a wallet was fetched.
C29_WitnessInvalid ==
    /\ Done
    /\ op = "get_balance"
    /\ InvalidCurrencyError

\* The positions of the collection's entries that lack a mandatory dispute field.
Malformed(l) == {i \in DOMAIN l : FirstMissing(l[i].o, DisputeKeys) # ""}

\* C30: get_payment_disputes parses only the entries that carry the
\* requested payment id.  An entry with another payment id, or with none,
\* never makes the call fail, even when it lacks mandatory dispute fields;
\* an entry with the requested payment id that lacks a mandatory field makes
\* the whole call fail, and no list is returned.
C30_FilteredBeforeParsing ==
    (Replied /\ op = "get_payment_disputes"
             /\ ("disputes" \in DOMAIN http.data => http.data["disputes"].t = "list")) =>
        LET l == CollectionOf(http.data, "disputes")
            requested == DisputesOf(l, args.payment_id)
        IN /\ requested \cap Malformed(l) = {} => outcome.kind = "return"
           /\ requested \cap Malformed(l) # {} =>
                  /\ outcome.kind = "raise"
                  /\ outcome.value = JNull
                  /\ outcome.msg =
                        <<FirstMissing(l[Nth(requested \cap Malformed(l), 1)].o, DisputeKeys)>>

\* The collection holds a dispute of another payment that lacks its reason
\* and a complete dispute of the requested payment: the call returns the latter.
C30_Witness ==
    /\ Replied
    /\ op = "get_payment_disputes"
    /\ args.payment_id = "id2"
    /\ "disputes" \in DOMAIN http.data
    /\ http.data["disputes"] = JList(<<JObj(Drop(DisputeFull("id2", "id1"), "reason")),
                                       JObj(DisputeFull("id2", "id2"))>>)
    /\ outcome.kind = "return"
    /\ Len(outcome.value.l) = 1

\* A complete dispute of the requested payment is followed by one that
\* lacks its reason: the call fails.
C30_WitnessFails ==
    /\ Replied
    /\ op = "get_payment_disputes"
    /\ args.payment_id = "id1"
    /\ "disputes" \in DOMAIN http.data
    /\ http.data["disputes"] = JList(<<JObj(DisputeFull("id1", "id1")),
                                       JObj(Drop(DisputeFull("id2", "id1"), "reason"))>>)
    /\ outcome = Raise("KeyError", <<"reason">>)
====
